---- MODULE Spec2Model ----
(***************************************************************************)
(* Model of the structure-visualization engine of ai-code-review-sage:     *)
(*   - the flow-graph renderer (D3Graph effect of the React app and the    *)
(*     renderD3Graph function of the script page), with the d3 force       *)
(*     simulation, drag, zoom and legend it sets up;                       *)
(*   - the data-structure classifier DSVisualizer.                         *)
(* Source: src/frontend/src/App.jsx.                                       *)
(***************************************************************************)
EXTENDS Integers, Sequences, FiniteSets, TLC

(***************************************************************************)
(* Bounds of the model.                                                    *)
(***************************************************************************)
\* number of render requests (effect runs / renderD3Graph calls) explored
\* by the lifecycle specification
MaxRenders == 2
\* number of render requests explored together with drag, zoom and pan
MaxGestureRenders == 1
\* number of times the component is unmounted
MaxUnmounts == 1
\* ticks a fresh simulation needs to cool below alphaMin (about 300 in d3)
AlphaTicks == 1

(***************************************************************************)
(* Program constants.                                                      *)
(***************************************************************************)
\* scaleExtent([0.3, 3]), in tenths
ScaleMin == 3
ScaleMax == 30
\* identity transform of a fresh drawing group, in tenths
ScaleIdentity == 10
\* fx / fy of a node that is not pinned (undefined or null in the source)
NoPin == -1

\* the points of the plane a node or the pointer can be at: <<x, y>>
Points == {<< 0, 1 >>, << 1, 0 >>}
\* offsets a pan gesture may move the drawing group to
PanOffsets == {0, 1}
\* scale factors a wheel / pinch gesture may ask for, in tenths
ZoomRequests == {1, ScaleIdentity, 45}

(***************************************************************************)
(* Flow-graph payloads (interface "Input payload A").  An endpoint of a    *)
(* link is a bare id string (form "id") or an embedded node {id} ("ref").  *)
(***************************************************************************)
PNode(id, label, type, detail) ==
    [id |-> id, label |-> label, type |-> type, detail |-> detail]

ById(id) == [form |-> "id", str |-> id]

ByRef(id) == [form |-> "ref", node |-> [id |-> id]]

PLink(s, t, label) == [source |-> s, target |-> t, label |-> label]

GraphPayloads ==
    << \* 1: the scenario of the specification: two nodes, one link
       [hasNodes |-> TRUE,
        nodes |-> << PNode("a", "Start", << "s", "t", "a", "r", "t" >>, ""),
                     PNode("b", "doWork",
                           << "f", "u", "n", "c", "t", "i", "o", "n" >>,
                           "calls work") >>,
        links |-> << PLink(ById("a"), ById("b"), "") >>],
       \* 2: two valid links and one whose target matches no node
       [hasNodes |-> TRUE,
        nodes |-> << PNode("a", "Start", << "s", "t", "a", "r", "t" >>, ""),
                     PNode("b", "check",
                           << "c", "o", "n", "d", "i", "t", "i", "o", "n" >>,
                           "") >>,
        links |-> << PLink(ById("a"), ById("b"), "yes"),
                     PLink(ByRef("b"), ById("a"), ""),
                     PLink(ById("a"), ById("z"), "") >>],
       \* 3: one node with a labelled self link given by reference
       [hasNodes |-> TRUE,
        nodes |-> << PNode("c", "loop", << "l", "o", "o", "p" >>, "") >>,
        links |-> << PLink(ByRef("c"), ByRef("c"), "again") >>],
       \* 4: no nodes key at all
       [hasNodes |-> FALSE, nodes |-> << >>, links |-> << >>] >>

PayloadIds == DOMAIN GraphPayloads

VARIABLES
    app,        \* "react" (D3Graph component) or "script" (renderD3Graph page)
    mounted,    \* the D3Graph component is mounted (script page: always)
    inst,       \* identity of the container element (one per mount)
    data,       \* payload the component currently shows (index), 0 = none yet
    renders,    \* one record per render request, in request order: the
                \* objects its draw created (simulation, node and link copies)
    container,  \* children of the current container element, each svg with
                \* the transform of its drawing group
    legend,     \* innerHTML of the current .graph-legend element
    dragging,   \* <<render, node>> of the drag gesture in progress, or << >>
    raised,     \* renders whose drawing raised an error
    graph,      \* the caller's payload objects (visualizeData.graph): the
                \* simulation fields written to its node and link objects
    dsData,     \* the data prop of DSVisualizer (a structure payload)
    dsView,     \* what DSVisualizer returned for dsData, NoView before
    dsFirst,    \* the view whose normal form dsData is, NoView if none
    dsDom,      \* the elements React renders for dsView
    label,      \* d.label of a graph node, a sequence of characters
    labelEl,    \* the text element appended for the label
    code,       \* the text of the code editor
    errorMessage, \* the text of the debug error input
    language,   \* the selected language
    activeTab,  \* the id of the tab shown
    loading,    \* null, or the { title, sub } of the loading overlay
    results,    \* reviewData, rewriteData, ... by kind, null before
    metricsData, \* the answer of getMetrics, null before
    sessionHistory, \* the actions saved by saveToHistory, latest first
    requests,   \* the api calls in flight and those whose answer arrived
    nextRequest, \* number of the next api call
    toast,      \* null, or the message the toast shows
    toastTimer, \* toastTimer.current: the id of the last timeout set
    timers,     \* the pending timeouts: id and seconds to go
    sinceToast, \* seconds since the last showToast call, up to the delay
    chatInput,  \* the text of the chat input
    chatMessages, \* the chat, a sequence of { role, content }
    chatLoading, \* the chat shows 'Thinking...'
    chatRequests, \* the chatWithAI calls in flight
    storage,    \* localStorage: sage_token and sage_user, null if absent
    logout,     \* a logoutUser call awaits the server
    saved       \* the last getSavedUser call: the storage it read and
                \* what it returned

graphVars == << app, mounted, inst, data, renders, container, legend,
                dragging, raised, graph >>

dsVars == << dsData, dsView, dsFirst, dsDom >>

labelVars == << label, labelEl >>

toastVars == << toast, toastTimer, timers, sinceToast >>

appVars == << code, errorMessage, language, activeTab, loading, results,
             metricsData, sessionHistory, requests, nextRequest, toastVars >>

chatVars == << chatInput, chatMessages, chatLoading, chatRequests >>

authVars == << storage, logout, saved >>

pageVars == << labelVars, appVars, chatVars, authVars >>

vars == << graphVars, dsVars, pageVars >>


(***************************************************************************)
(* Pure parts of the draw: copying the payload, resolving link endpoints,  *)
(* the d3 link force, the legend and the zoom clamp.                       *)
(***************************************************************************)
\* d3 forceSimulation(nodes): a node without x/y gets a start position
\* that depends only on its index (phyllotaxis arrangement)
InitialPosition(i) == IF i % 2 = 1 THEN << 0, 1 >> ELSE << 1, 0 >>

\* CopyNodes with a copy that keeps id, label and type only
CopyNodesNoDetail(ns) ==
    [i \in DOMAIN ns |->
        [id |-> ns[i].id, label |-> ns[i].label, type |-> ns[i].type,
         detail |-> "",
         x |-> InitialPosition(i)[1], y |-> InitialPosition(i)[2],
         fx |-> NoPin, fy |-> NoPin]]

\* const nodes = data.nodes.map((n) => ({ ...n })), then forceSimulation
\* adds the position fields to each copy
CopyNodes(ns) ==
    [i \in DOMAIN ns |->
        [id |-> ns[i].id, label |-> ns[i].label, type |-> ns[i].type,
         detail |-> ns[i].detail,
         x |-> InitialPosition(i)[1], y |-> InitialPosition(i)[2],
         fx |-> NoPin, fy |-> NoPin]]

\* typeof l.source === 'string' ? l.source : l.source.id
EndpointId(e) == IF e.form = "id" THEN e.str ELSE e.node.id

\* const links = data.links.map((l) => ({ source, target, label }))
MapLinks(ls) ==
    [i \in DOMAIN ls |->
        [source |-> EndpointId(ls[i].source),
         target |-> EndpointId(ls[i].target),
         label |-> ls[i].label]]

\* d3-force find(nodeById, id): the node with that id (the last one when
\* ids repeat), 0 when there is none (d3 then throws "node not found")
Find(nodes, id) ==
    LET hits == {i \in DOMAIN nodes : nodes[i].id = id}
    IN  IF hits = {} THEN 0 ELSE CHOOSE i \in hits : \A j \in hits : j <= i

\* ForceLinkInit with a find that returns nothing instead of throwing
ForceLinkInitNoThrow(nodes, links) ==
    [ok |-> TRUE,
     links |-> [i \in DOMAIN links |->
                   [source |-> Find(nodes, links[i].source),
                    target |-> Find(nodes, links[i].target),
                    label |-> links[i].label]]]

\* forceLink(links).id((d) => d.id) initialised against the nodes: every
\* endpoint id is replaced by (a reference to) its node; ok is FALSE when
\* find throws, and then nothing after the call in the draw is executed
ForceLinkInit(nodes, links) ==
    LET res == [i \in DOMAIN links |->
                   [source |-> Find(nodes, links[i].source),
                    target |-> Find(nodes, links[i].target),
                    label |-> links[i].label]]
    IN  [ok |-> \A i \in DOMAIN res : res[i].source # 0 /\ res[i].target # 0,
         links |-> res]

RECURSIVE Distinct(_)
\* [...new Set(xs)]: first occurrences, in order
Distinct(xs) ==
    IF xs = << >> THEN << >>
    ELSE LET front == Distinct(SubSeq(xs, 1, Len(xs) - 1))
             last == xs[Len(xs)]
         IN  IF \E i \in DOMAIN front : front[i] = last
             THEN front ELSE Append(front, last)

\* usedTypes of the legend
UsedTypes(nodes) == Distinct([i \in DOMAIN nodes |-> nodes[i].type])

UpperCase == << "A", "B", "C", "D", "E", "F", "G", "H", "I", "J", "K", "L",
               "M", "N", "O", "P", "Q", "R", "S", "T", "U", "V", "W", "X",
               "Y", "Z" >>

LowerCase == << "a", "b", "c", "d", "e", "f", "g", "h", "i", "j", "k", "l",
               "m", "n", "o", "p", "q", "r", "s", "t", "u", "v", "w", "x",
               "y", "z" >>

\* c.toUpperCase() of one character
ToUpperCase(c) ==
    IF \E j \in DOMAIN LowerCase : LowerCase[j] = c
    THEN UpperCase[CHOOSE j \in DOMAIN LowerCase : LowerCase[j] = c]
    ELSE c

\* t.charAt(0).toUpperCase() + t.slice(1)
Capitalize(t) ==
    IF t = << >> THEN << >> ELSE << ToUpperCase(Head(t)) >> \o Tail(t)

\* NODE_COLORS[t] || '#64748b'
NodeColor(t) ==
    CASE t = << "s", "t", "a", "r", "t" >> -> "#10b981"
      [] t = << "e", "n", "d" >> -> "#ef4444"
      [] t = << "f", "u", "n", "c", "t", "i", "o", "n" >> -> "#6366f1"
      [] t = << "c", "l", "a", "s", "s" >> -> "#8b5cf6"
      [] t = << "c", "o", "n", "d", "i", "t", "i", "o", "n" >> -> "#f59e0b"
      [] t = << "l", "o", "o", "p" >> -> "#ec4899"
      [] t = << "i", "o" >> -> "#06b6d4"
      [] t = << "o", "p", "e", "r", "a", "t", "i", "o", "n" >> -> "#64748b"
      [] OTHER -> "#64748b"

\* legendEl.innerHTML: one legend-item per used type, a dot in the colour
\* of the type and the capitalized type name
LegendItems(nodes) ==
    LET usedTypes == UsedTypes(nodes)
    IN  [i \in DOMAIN usedTypes |->
            [dot |-> NodeColor(usedTypes[i]),
             text |-> Capitalize(usedTypes[i])]]

\* ClampScale with an extent that has no upper end
ClampScaleNoMax(k) == IF k < ScaleMin THEN ScaleMin ELSE k

\* d3.zoom().scaleExtent([0.3, 3]): the scale a gesture asks for is
\* clamped into the extent before the zoom event is emitted
ClampScale(k) ==
    IF k < ScaleMin THEN ScaleMin ELSE IF k > ScaleMax THEN ScaleMax ELSE k

(***************************************************************************)
(* A render: everything one run of the draw creates.                       *)
(***************************************************************************)
\* state after container.innerHTML = '' and import('d3') was requested
PendingRender(i, p) ==
    [inst |-> i, p |-> p, phase |-> "pending",
     nodes |-> << >>, links |-> << >>, lines |-> << >>,
     nodeEls |-> 0, tooltip |-> FALSE, tickOn |-> FALSE, forces |-> FALSE,
     running |-> FALSE, alpha |-> 0, alphaTarget |-> 0]

\* the body of the draw from "const svg = ..." to the legend, for payload p
DrawRender(i, p) ==
    LET pl == GraphPayloads[p]
        base == PendingRender(i, p)
    IN  IF ~pl.hasNodes
        THEN \* graphData.nodes.map raises before any simulation exists
             [base EXCEPT !.phase = "failed"]
        ELSE LET nodes == CopyNodes(pl.nodes)
                 links == MapLinks(pl.links)
                 fl == ForceLinkInit(nodes, links)
                 sim == [base EXCEPT !.nodes = nodes, !.running = TRUE,
                                     !.alpha = AlphaTicks]
             IN  IF ~fl.ok
                 THEN \* forceLink raised: the simulation exists and its
                      \* timer runs, but no force, element or handler
                      [sim EXCEPT !.phase = "failed"]
                 ELSE [sim EXCEPT !.phase = "drawn", !.links = fl.links,
                                  !.lines = fl.links, !.forces = TRUE,
                                  !.nodeEls = Len(nodes), !.tooltip = TRUE,
                                  !.tickOn = TRUE]

\* the svg element of render r; k and tx are the scale and the offset of
\* the transform attribute of its drawing group g
Svg(r) == [kind |-> "svg", r |-> r, k |-> ScaleIdentity, tx |-> 0]

Tooltip(r) == [kind |-> "tooltip", r |-> r]

\* what the draw of render r appends to its container
DrawnChildren(r, rec) ==
    IF rec.tooltip THEN << Svg(r), Tooltip(r) >> ELSE << Svg(r) >>

IsSvgOf(c, r) == c.kind = "svg" /\ c.r = r

\* the svg of render r is a child of cont
InContainer(cont, r) == \E c \in DOMAIN cont : IsSvgOf(cont[c], r)

\* the svg of render r is in the document
InDom(r) == InContainer(container, r)

\* a later render request was made for the container of render r
Superseded(r) ==
    \E q \in DOMAIN renders : q > r /\ renders[q].inst = renders[r].inst

\* what is left of a render once nothing refers to its objects any more
Gone(i) == [PendingRender(i, 0) EXCEPT !.phase = "gone"]

\* The JavaScript heap after a step: the objects of a render stay alive
\* while its import is pending, its svg is in the document, its timer runs
\* or a drag gesture holds one of its nodes; otherwise they are garbage.
Collect(rs, cont, drag) ==
    [r \in DOMAIN rs |->
        IF \/ rs[r].phase = "pending"
           \/ InContainer(cont, r)
           \/ rs[r].running
           \/ (drag # << >> /\ drag[1] = r)
        THEN rs[r] ELSE Gone(rs[r].inst)]

(***************************************************************************)
(* Object identity.  The simulation writes x, y, fx, fy to the objects of  *)
(* its nodes array and the resolved endpoints to the objects of its links  *)
(* array; an address tells whose object that is.                           *)
(***************************************************************************)
\* NodeAddress of a simulation that is given data.nodes itself
NodeAddressShared(r, p, i) == << "payload", p, i >>

\* data.nodes.map((n) => ({ ...n })): element i of the nodes array of
\* render r is an object created by that render
NodeAddress(r, p, i) == << "render", r, i >>

\* data.links.map((l) => ({ source: ..., target: ..., label: l.label })):
\* element j of the links array of render r is created by that render
LinkAddress(r, p, j) == << "render", r, j >>

\* the payload objects as the caller built them: no simulation field on a
\* node, no link endpoint replaced by a node object
PristineGraph ==
    [p \in PayloadIds |->
        [nodes |-> [i \in DOMAIN GraphPayloads[p].nodes |->
                       [hasXY |-> FALSE, x |-> 0, y |-> 0,
                        fx |-> NoPin, fy |-> NoPin]],
         links |-> [j \in DOMAIN GraphPayloads[p].links |->
                       [resolved |-> FALSE]]]]

\* the payload objects after the simulation of render r wrote the fields
\* of rec to the objects of its nodes and links arrays
Store(g, r, rec) ==
    IF rec.p \notin PayloadIds THEN g
    ELSE [g EXCEPT ![rec.p] =
            [nodes |-> [i \in DOMAIN g[rec.p].nodes |->
                IF /\ i \in DOMAIN rec.nodes
                   /\ NodeAddress(r, rec.p, i) = << "payload", rec.p, i >>
                THEN [hasXY |-> TRUE,
                      x |-> rec.nodes[i].x, y |-> rec.nodes[i].y,
                      fx |-> rec.nodes[i].fx, fy |-> rec.nodes[i].fy]
                ELSE g[rec.p].nodes[i]],
             links |-> [j \in DOMAIN g[rec.p].links |->
                IF /\ j \in DOMAIN rec.links
                   /\ LinkAddress(r, rec.p, j) = << "payload", rec.p, j >>
                THEN [resolved |-> TRUE]
                ELSE g[rec.p].links[j]]]]

GraphInit ==
    /\ graph = PristineGraph
    /\ app \in {"react", "script"}
    /\ mounted = (app = "script")
    /\ inst = 1
    /\ data = 0
    /\ renders = << >>
    /\ container = << >>
    /\ legend = << >>
    /\ dragging = << >>
    /\ raised = {}

(***************************************************************************)
(* The D3Graph effect (React app).                                         *)
(***************************************************************************)
\* useEffect body up to import('d3'): guard, clear, request the import
RunEffect(p) ==
    IF ~GraphPayloads[p].hasNodes
    THEN UNCHANGED << renders, container >>
    ELSE /\ container' = << >>
         /\ renders' = Collect(Append(renders, PendingRender(inst, p)),
                               << >>, dragging)

\* the visualize tab is opened with a result: D3Graph mounts, effect runs
Mount(p) ==
    /\ app = "react" /\ ~mounted
    /\ mounted' = TRUE
    /\ data' = p
    /\ RunEffect(p)
    /\ UNCHANGED << dsVars, pageVars >>
    /\ UNCHANGED << app, inst, legend, dragging, raised, graph >>

\* a new visualize result arrives while the graph is shown
SetData(p) ==
    /\ app = "react" /\ mounted
    /\ data' = p
    /\ RunEffect(p)
    /\ UNCHANGED << dsVars, pageVars >>
    /\ UNCHANGED << app, mounted, inst, legend, dragging, raised, graph >>

\* the theme is toggled while the graph is shown: isDark changes and the
\* effect runs again with the same data (isDark only selects the stroke
\* and fill colours of the drawing)
ToggleTheme ==
    /\ app = "react" /\ mounted
    /\ RunEffect(data)
    /\ UNCHANGED << dsVars, pageVars >>
    /\ UNCHANGED << app, mounted, inst, data, legend, dragging, raised,
                    graph >>

\* the tab or view is switched away: the component unmounts.  The effect
\* returns no cleanup function, so nothing but the DOM removal happens.
Unmount ==
    /\ app = "react" /\ mounted
    /\ mounted' = FALSE
    /\ inst' = inst + 1
    /\ container' = << >>
    /\ legend' = << >>
    /\ renders' = Collect(renders, << >>, dragging)
    /\ UNCHANGED << dsVars, pageVars >>
    /\ UNCHANGED << app, data, dragging, raised, graph >>

\* import('d3') of render r resolves: the .then callback draws
ImportResolve(r) ==
    /\ app = "react"
    /\ r \in DOMAIN renders
    /\ renders[r].phase = "pending"
    /\ LET rec == DrawRender(renders[r].inst, renders[r].p)
       IN  /\ renders' = [renders EXCEPT ![r] = rec]
           /\ container' = IF rec.inst = inst
                           THEN container \o DrawnChildren(r, rec)
                           ELSE container
           /\ legend' = IF rec.phase = "drawn" /\ rec.inst = inst
                        THEN LegendItems(rec.nodes) ELSE legend
           /\ raised' = IF rec.phase = "failed" THEN raised \cup {r}
                        ELSE raised
           /\ graph' = Store(graph, r, rec)
    /\ UNCHANGED << dsVars, pageVars >>
    /\ UNCHANGED << app, mounted, inst, data, dragging >>

(***************************************************************************)
(* renderD3Graph (script page): clear and draw in one synchronous call.    *)
(***************************************************************************)
RenderD3Graph(p) ==
    /\ app = "script"
    /\ LET r == Len(renders) + 1
           rec == DrawRender(inst, p)
       IN  /\ container' = DrawnChildren(r, rec)
           /\ renders' = Collect(Append(renders, rec), container', dragging)
           /\ legend' = IF rec.phase = "drawn"
                        THEN LegendItems(rec.nodes) ELSE legend
           /\ raised' = IF rec.phase = "failed" THEN raised \cup {r}
                        ELSE raised
           /\ graph' = Store(graph, r, rec)
    /\ data' = p
    /\ UNCHANGED << dsVars, pageVars >>
    /\ UNCHANGED << app, mounted, inst, dragging >>

(***************************************************************************)
(* The d3 simulation timer.                                                *)
(***************************************************************************)
\* alpha += (alphaTarget - alpha) * alphaDecay, on the cooling scale
\* 0 (below alphaMin) .. AlphaTicks (fresh)
NextAlpha(alpha, alphaTarget) ==
    IF alphaTarget > 0
    THEN (IF alpha > 1 THEN alpha - 1 ELSE 1)
    ELSE (IF alpha > 0 THEN alpha - 1 ELSE 0)

\* position part of simulation.tick(): a pinned coordinate is set to its
\* pin, a free one goes where the forces put it (to)
TickNode(n, to, forces) ==
    [n EXCEPT !.x = IF n.fx # NoPin THEN n.fx
                    ELSE IF forces THEN to[1] ELSE n.x,
              !.y = IF n.fy # NoPin THEN n.fy
                    ELSE IF forces THEN to[2] ELSE n.y]

\* one step of the timer of render r's simulation (the tick handler, when
\* installed, then copies the positions to the elements of render r)
Tick(r) ==
    /\ r \in DOMAIN renders
    /\ renders[r].running
    /\ \E to \in [DOMAIN renders[r].nodes -> Points] :
         LET rec == renders[r]
             a == NextAlpha(rec.alpha, rec.alphaTarget)
             ticked == [rec EXCEPT !.alpha = a,
                             !.running = (a > 0),
                             !.nodes = [i \in DOMAIN rec.nodes |->
                                 TickNode(rec.nodes[i], to[i], rec.forces)]]
         IN  /\ renders' = Collect([renders EXCEPT ![r] = ticked],
                                   container, dragging)
             /\ graph' = Store(graph, r, ticked)
    /\ UNCHANGED << dsVars, pageVars >>
    /\ UNCHANGED << app, mounted, inst, data, container, legend,
                    dragging, raised >>

(***************************************************************************)
(* Drag (d3.drag on the node groups) and zoom (d3.zoom on the svg).        *)
(***************************************************************************)
\* DragStart without simulation.alphaTarget(0.3).restart()
DragStartNoRestart(r, i) ==
    /\ dragging = << >>
    /\ InDom(r)
    /\ i \in 1..renders[r].nodeEls
    /\ LET d == renders[r].nodes[i]
       IN  renders' = [renders EXCEPT ![r].nodes[i].fx = d.x,
                                      ![r].nodes[i].fy = d.y]
    /\ graph' = Store(graph, r, renders'[r])
    /\ dragging' = << r, i >>
    /\ UNCHANGED << dsVars, pageVars >>
    /\ UNCHANGED << app, mounted, inst, data, container, legend,
                    raised >>

\* on('start'): e.active is 0 for the single pointer
DragStart(r, i) ==
    /\ dragging = << >>
    /\ InDom(r)
    /\ i \in 1..renders[r].nodeEls
    /\ LET d == renders[r].nodes[i]
       IN  renders' = [renders EXCEPT ![r].alphaTarget = 1,
                                      ![r].running = TRUE,
                                      ![r].nodes[i].fx = d.x,
                                      ![r].nodes[i].fy = d.y]
    /\ graph' = Store(graph, r, renders'[r])
    /\ dragging' = << r, i >>
    /\ UNCHANGED << dsVars, pageVars >>
    /\ UNCHANGED << app, mounted, inst, data, container, legend,
                    raised >>

\* on('drag'): the pin follows the pointer
DragMove(e) ==
    /\ dragging # << >>
    /\ renders' = [renders EXCEPT ![dragging[1]].nodes[dragging[2]].fx = e[1],
                                  ![dragging[1]].nodes[dragging[2]].fy = e[2]]
    /\ graph' = Store(graph, dragging[1], renders'[dragging[1]])
    /\ UNCHANGED << dsVars, pageVars >>
    /\ UNCHANGED << app, mounted, inst, data, container, legend,
                    dragging, raised >>

\* DragEnd that clears fx only
DragEndKeepsFy ==
    /\ dragging # << >>
    /\ dragging' = << >>
    /\ LET released ==
               [renders EXCEPT ![dragging[1]].alphaTarget = 0,
                               ![dragging[1]].nodes[dragging[2]].fx = NoPin]
       IN  /\ renders' = Collect(released, container, << >>)
           /\ graph' = Store(graph, dragging[1], released[dragging[1]])
    /\ UNCHANGED << dsVars, pageVars >>
    /\ UNCHANGED << app, mounted, inst, data, container, legend, raised >>

\* on('end')
DragEnd ==
    /\ dragging # << >>
    /\ dragging' = << >>
    /\ LET released ==
               [renders EXCEPT ![dragging[1]].alphaTarget = 0,
                               ![dragging[1]].nodes[dragging[2]].fx = NoPin,
                               ![dragging[1]].nodes[dragging[2]].fy = NoPin]
       IN  /\ renders' = Collect(released, container, << >>)
           /\ graph' = Store(graph, dragging[1], released[dragging[1]])
    /\ UNCHANGED << dsVars, pageVars >>
    /\ UNCHANGED << app, mounted, inst, data, container, legend,
                    raised >>

\* wheel / pinch on the svg of render r asking for scale k: the zoom
\* handler writes the clamped transform to the drawing group
Zoom(r, k) ==
    /\ \E c \in DOMAIN container :
         /\ IsSvgOf(container[c], r)
         /\ container' = [container EXCEPT ![c].k = ClampScale(k)]
    /\ UNCHANGED << dsVars, pageVars >>
    /\ UNCHANGED << app, mounted, inst, data, renders, legend,
                    dragging, raised, graph >>

\* pan of the svg of render r to offset t
Pan(r, t) ==
    /\ \E c \in DOMAIN container :
         /\ IsSvgOf(container[c], r)
         /\ container' = [container EXCEPT ![c].tx = t]
    /\ UNCHANGED << dsVars, pageVars >>
    /\ UNCHANGED << app, mounted, inst, data, renders, legend,
                    dragging, raised, graph >>

(***************************************************************************)
(* JavaScript values of the structure payloads (interface "Input payload   *)
(* B").  A string is the sequence of its characters.                        *)
(***************************************************************************)
Undef == [k |-> "undef"]

Null == [k |-> "null"]

Num(n) == [k |-> "num", n |-> n]

Str(s) == [k |-> "str", s |-> s]

Arr(items) == [k |-> "arr", items |-> items]

\* an object literal; a key that is not written has the value Undef
Obj(val, value, left, right, other) ==
    [k |-> "obj", val |-> val, value |-> value, left |-> left,
     right |-> right, other |-> other]

Payload(structure, type, nodes, root, description) ==
    [k |-> "obj", structure |-> structure, type |-> type, nodes |-> nodes,
     root |-> root, description |-> description]

\* the string JSON.stringify(v) returns
Json(v) == [k |-> "json", of |-> v]

\* the TypeError a property read of null or undefined raises
Throw == [k |-> "throw"]

\* v.key and v?.key for a v that is neither null nor undefined
Get(v, key) ==
    IF v.k = "obj" /\ key \in DOMAIN v THEN v[key] ELSE Undef

Truthy(v) ==
    CASE v.k \in {"undef", "null"} -> FALSE
      [] v.k = "num" -> v.n # 0
      [] v.k = "str" -> v.s # << >>
      [] OTHER -> TRUE

\* a || b
Or(a, b) == IF Truthy(a) THEN a ELSE b

\* a ?? b
Coalesce(a, b) == IF a.k \in {"undef", "null"} THEN b ELSE a

\* typeof v === 'object'
TypeofObject(v) == v.k \in {"obj", "arr", "null"}

\* s.toLowerCase()
ToLowerCase(s) ==
    [i \in DOMAIN s |->
        IF \E j \in DOMAIN UpperCase : UpperCase[j] = s[i]
        THEN LowerCase[CHOOSE j \in DOMAIN UpperCase : UpperCase[j] = s[i]]
        ELSE s[i]]

\* the characters the class [\s-_] matches
Separators == {" ", "\t", "\n", "-", "_"}

IsNotSeparator(c) == c \notin Separators

\* s.replace(/[\s-_]/g, '')
StripSeparators(s) == SelectSeq(s, IsNotSeparator)

\* s.includes(sub)
Includes(s, sub) ==
    \E i \in 0..(Len(s) - Len(sub)) : SubSeq(s, i + 1, i + Len(sub)) = sub

\* type.toLowerCase().replace(/[\s-_]/g, '')
NormalizeType(s) == StripSeparators(ToLowerCase(s))

IsLinkedList(type) ==
    \/ Includes(type, << "l", "i", "n", "k", "e", "d" >>)
    \/ Includes(type, << "l", "i", "s", "t" >>)
    \/ type = << "a", "r", "r", "a", "y" >>
    \/ type = << "s", "t", "a", "c", "k" >>
    \/ type = << "q", "u", "e", "u", "e" >>

\* IsTree without the word tree
IsTreeNoTreeWord(type) ==
    \/ Includes(type, << "b", "i", "n", "a", "r", "y" >>)
    \/ Includes(type, << "b", "s", "t" >>)
    \/ Includes(type, << "h", "e", "a", "p" >>)

IsTree(type) ==
    \/ Includes(type, << "t", "r", "e", "e" >>)
    \/ Includes(type, << "b", "i", "n", "a", "r", "y" >>)
    \/ Includes(type, << "b", "s", "t" >>)
    \/ Includes(type, << "h", "e", "a", "p" >>)

\* the heading of the chain: Stack, Queue or Linked List
LinearKind(type) ==
    IF Includes(type, << "s", "t", "a", "c", "k" >>) THEN "stack"
    ELSE IF Includes(type, << "q", "u", "e", "u", "e" >>) THEN "queue"
    ELSE "list"

RECURSIVE FlattenLeftOnly(_)
\* Flatten that does not descend into the right child
FlattenLeftOnly(n) ==
    IF ~Truthy(n) THEN << >>
    ELSE << Coalesce(Get(n, "val"), Coalesce(Get(n, "value"), n)) >>
         \o (IF Truthy(Get(n, "left")) THEN FlattenLeftOnly(Get(n, "left"))
             ELSE << >>)

RECURSIVE Flatten(_)
\* const flatten = (n) => { ... }: the values pushed to flatNodes
Flatten(n) ==
    IF ~Truthy(n) THEN << >>
    ELSE << Coalesce(Get(n, "val"), Coalesce(Get(n, "value"), n)) >>
         \o (IF Truthy(Get(n, "left")) THEN Flatten(Get(n, "left"))
             ELSE << >>)
         \o (IF Truthy(Get(n, "right")) THEN Flatten(Get(n, "right"))
             ELSE << >>)

\* the text of a box of the chain
LinearValue(node) ==
    IF TypeofObject(node)
    THEN (IF node.k = "null" THEN Throw
          ELSE Coalesce(Get(node, "val"),
                        Coalesce(Get(node, "value"), Json(node))))
    ELSE node

\* the text of a marker of the tree-node cluster
ClusterValue(node) ==
    IF TypeofObject(node)
    THEN (IF node.k = "null" THEN Throw
          ELSE Coalesce(Get(node, "val"),
                        Coalesce(Get(node, "value"), Str(<< "?" >>))))
    ELSE node

\* 'Could not visualize the data structure. Try pasting code ...'
FixedMessage == Str(<< "Could not visualize the data structure..." >>)

View(shape, kind, items, root, text) ==
    [shape |-> shape, kind |-> kind, items |-> items, root |-> root,
     text |-> text]

NoView == View("none", "", << >>, Undef, Str(<< >>))

ThrowView == View("throw", "", << >>, Undef, Str(<< >>))

\* let type = struct?.type || '' without the default
RawTypeNoDefault(struct) == Get(struct, "type")

\* let type = struct?.type || ''
RawType(struct) == Or(Get(struct, "type"), Str(<< >>))

\* ChainCondition that asks for nodes only
ChainConditionAnyNodes(isLinkedList, isTree, n) == n > 0

\* (isLinkedList || (!isTree && nodes.length > 0)) && nodes.length > 0
ChainCondition(isLinkedList, isTree, n) ==
    (isLinkedList \/ (~isTree /\ n > 0)) /\ n > 0

\* the bare-array step left out
ArrayNodesNever(nodes, root, struct) == nodes

\* if (nodes.length === 0 && !root && Array.isArray(struct)) nodes = struct
ArrayNodes(nodes, root, struct) ==
    IF Len(nodes) = 0 /\ ~Truthy(root) /\ struct.k = "arr"
    THEN struct.items ELSE nodes

\* the fallback text without the description
FallbackTextNoDescription(description, props) ==
    IF props.k = "str" THEN props ELSE FixedMessage

\* const fallbackText = description || (typeof data === 'string' ? data
\* : 'Could not visualize ...')
FallbackText(description, props) ==
    Or(description, IF props.k = "str" THEN props ELSE FixedMessage)

\* the first statements of DSVisualizer: struct after the unwrapping
Unwrap(props) ==
    LET struct == Or(Get(props, "structure"), props)
    IN  IF TypeofObject(struct) /\ Truthy(Get(struct, "structure"))
        THEN Get(struct, "structure") ELSE struct

\* DSVisualizer({ data }), props being the value of data: which of its four returns is taken, and with
\* which content; ThrowView when a statement on the way raises
DSVisualizer(props) ==
    LET struct == Unwrap(props)
        rawType == RawType(struct)
        nodes0 == Or(Get(struct, "nodes"), Arr(<< >>))
        root == Or(Get(struct, "root"), Null)
        description == Or(Get(struct, "description"),
                          Or(Get(props, "description"), Str(<< >>)))
    IN  IF rawType.k # "str" \/ nodes0.k # "arr" THEN ThrowView
        ELSE
        LET type == NormalizeType(rawType.s)
            isLinkedList == IsLinkedList(type)
            isTree == IsTree(type)
            flatNodes == Flatten(root)
            nodes1 == IF /\ Len(nodes0.items) = 0 /\ Truthy(root)
                         /\ Len(flatNodes) > 0 /\ ~isTree
                      THEN flatNodes ELSE nodes0.items
            nodes == ArrayNodes(nodes1, root, struct)
            boxes == [i \in DOMAIN nodes |-> LinearValue(nodes[i])]
            markers == [i \in DOMAIN nodes |-> ClusterValue(nodes[i])]
        IN  IF ChainCondition(isLinkedList, isTree, Len(nodes))
            THEN (IF \E i \in DOMAIN boxes : boxes[i] = Throw THEN ThrowView
                  ELSE View("linear", LinearKind(type), boxes, Undef,
                            description))
            ELSE IF isTree /\ Truthy(root)
            THEN View("tree", "", << >>, root, description)
            ELSE IF isTree /\ Len(nodes) > 0
            THEN (IF \E i \in DOMAIN markers : markers[i] = Throw
                  THEN ThrowView
                  ELSE View("treenodes", "", markers, Undef, description))
            ELSE View("text", "", << >>, Undef,
                      FallbackText(description, props))

(***************************************************************************)
(* The elements of the static diagrams: the chain and the cluster that     *)
(* DSVisualizer returns, and the tree of TreeVisualization.  Lengths are   *)
(* in px, with the browser's 16 px to the rem.                             *)
(***************************************************************************)
\* width: 42 of the circle of a tree node
MarkerWidth == 42
\* <div style={{ width: 42 }}></div> in place of a missing child
PlaceholderWidth == 42
\* margin: '0 0.5rem' of the column of a tree node
SlotMargin == 8
\* gap: '1rem' between the two child slots
RowGap == 16

Placeholder == [kind |-> "placeholder", width |-> PlaceholderWidth]

RECURSIVE RenderNode(_)
\* renderNode(node) for a truthy node: the circle showing node.val and,
\* when the node has a child, the row of the left and the right slot
RenderNode(node) ==
    LET left == Get(node, "left")
        right == Get(node, "right")
    IN  [kind |-> "node",
         marker |-> Get(node, "val"),
         row |-> IF Truthy(left) \/ Truthy(right)
                 THEN << IF Truthy(left) THEN RenderNode(left)
                         ELSE Placeholder,
                         IF Truthy(right) THEN RenderNode(right)
                         ELSE Placeholder >>
                 ELSE << >>]

\* TreeVisualization({ root })
TreeVisualization(root) ==
    IF ~Truthy(root) THEN [kind |-> "emptytree"] ELSE RenderNode(root)

\* the heading of the chain
LinearLabel(kind) ==
    IF kind = "stack" THEN "Stack"
    ELSE IF kind = "queue" THEN "Queue" ELSE "Linked List"

Box(text) == [kind |-> "box", text |-> text]

Arrow == [kind |-> "arrow"]

NullMark == [kind |-> "null"]

\* LinearChain without the NULL span
LinearChainNoNull(boxes) ==
    [i \in 1..(2 * Len(boxes)) |->
        IF i % 2 = 1 THEN Box(boxes[(i + 1) \div 2]) ELSE Arrow]

RECURSIVE LinearChain(_)
\* nodes.map(...) of the chain, a box and an arrow per node, then the
\* NULL span
LinearChain(boxes) ==
    IF boxes = << >> THEN << NullMark >>
    ELSE << Box(Head(boxes)), Arrow >> \o LinearChain(Tail(boxes))

\* ClusterMarkers with a NULL mark at the end, as the chain has
ClusterMarkersWithNull(markers) ==
    [i \in DOMAIN markers |-> [kind |-> "marker", text |-> markers[i]]]
        \o << NullMark >>

\* nodes.map(...) of the cluster: one circle per node
ClusterMarkers(markers) ==
    [i \in DOMAIN markers |-> [kind |-> "marker", text |-> markers[i]]]

RECURSIVE OuterWidth(_)
\* the horizontal space a child slot takes in its row: the placeholder's
\* width, or the margin box of the column of a rendered node, whose
\* content is as wide as the wider of its circle and its row
OuterWidth(el) ==
    IF el.kind = "placeholder" THEN el.width
    ELSE LET rowWidth == IF el.row = << >> THEN 0
                         ELSE OuterWidth(el.row[1]) + RowGap
                                  + OuterWidth(el.row[2])
         IN  (IF rowWidth > MarkerWidth THEN rowWidth ELSE MarkerWidth)
                 + 2 * SlotMargin

NoDom == [tag |-> "none", heading |-> "", children |-> << >>]

\* the elements of the return statement DSVisualizer takes
Dom(view) ==
    CASE view.shape = "linear" ->
           [tag |-> "chain", heading |-> LinearLabel(view.kind),
            children |-> LinearChain(view.items)]
      [] view.shape = "tree" ->
           [tag |-> "tree", heading |-> "Binary Tree",
            children |-> << TreeVisualization(view.root) >>]
      [] view.shape = "treenodes" ->
           [tag |-> "cluster", heading |-> "Tree Nodes",
            children |-> ClusterMarkers(view.items)]
      [] view.shape = "text" ->
           [tag |-> "prose", heading |-> "", children |-> << view.text >>]
      [] OTHER -> NoDom

(***************************************************************************)
(* Structure payloads the classifier is applied to.                        *)
(***************************************************************************)
Leaf(v) == Obj(v, Undef, Undef, Undef, Undef)

TypeOpts ==
    { Undef } \cup { Str(t) : t \in {
        << "L", "i", "n", "k", "e", "d", " ", "L", "i", "s", "t" >>,
        << "l", "i", "n", "k", "e", "d", "_", "l", "i", "s", "t" >>,
        << "d", "o", "u", "b", "l", "y", "-", "l", "i", "n", "k", "e", "d", " ", "l", "i", "s", "t" >>,
        << "l", "i", "s", "t" >>,
        << "S", "t", "a", "c", "k" >>,
        << "s", "t", "a", "c", "k" >>,
        << "c", "a", "l", "l", " ", "s", "t", "a", "c", "k" >>,
        << "q", "u", "e", "u", "e" >>,
        << "p", "r", "i", "o", "r", "i", "t", "y", " ", "q", "u", "e", "u", "e" >>,
        << "a", "r", "r", "a", "y" >>,
        << "B", "i", "n", "a", "r", "y", " ", "T", "r", "e", "e" >>,
        << "B", "S", "T" >>,
        << "m", "i", "n", "-", "h", "e", "a", "p" >>,
        << "t", "r", "e", "e" >>,
        << "h", "e", "a", "p", " ", "q", "u", "e", "u", "e" >>,
        << "t", "r", "e", "e", " ", "l", "i", "s", "t" >>,
        << "g", "r", "a", "p", "h" >> } }

NodesOpts ==
    { Undef,
      Arr(<< >>),
      Arr(<< Num(1), Num(2), Num(3) >>),
      Arr(<< Num(0), Str(<< "a" >>), Str(<< >>) >>),
      Arr(<< Leaf(Num(1)), Obj(Undef, Num(2), Undef, Undef, Undef) >>),
      Arr(<< Obj(Undef, Undef, Undef, Undef, Num(7)), Leaf(Num(0)) >>) }

RootOpts ==
    { Undef,
      Obj(Num(5), Undef, Leaf(Num(3)), Leaf(Num(8)), Undef),
      Obj(Undef, Num(1), Undef,
          Obj(Undef, Num(2), Undef, Undef, Undef), Undef),
      Obj(Undef, Undef, Leaf(Num(0)), Undef, Num(9)) }

DescriptionOpts == { Undef, Str(<< "d" >>) }

ObjectPayloads ==
    { Payload(Undef, t, n, r, d) :
        t \in TypeOpts, n \in NodesOpts, r \in RootOpts,
        d \in DescriptionOpts }

\* payloads nested under a structure key, with or without an outer text
WrappedPayloads ==
    { Payload(inner, Undef, Undef, Undef, d) :
        inner \in { Payload(Undef, Str(<< "q", "u", "e", "u", "e" >>),
                            Arr(<< Num(1), Num(2), Num(3) >>), Undef, Undef),
                    Payload(Undef, Str(<< "B", "i", "n", "a", "r", "y", " ", "T", "r", "e", "e" >>), Undef,
                            Leaf(Num(5)), Str(<< "e" >>)),
                    Payload(Payload(Undef, Str(<< "s", "t", "a", "c", "k" >>), Arr(<< Num(4) >>),
                                    Undef, Undef),
                            Undef, Undef, Undef, Undef),
                    Arr(<< Num(1), Num(2) >>),
                    Str(<< "t" >>) },
        d \in DescriptionOpts }

BarePayloads ==
    { Arr(<< >>), Arr(<< Num(1), Num(2), Num(3) >>),
      Arr(<< Num(0), Str(<< >>), Num(0) >>),
      Arr(<< Obj(Undef, Undef, Undef, Undef, Num(7)), Num(2) >>),
      Arr(<< Leaf(Num(1)), Str(<< "a" >>) >>), Str(<< "t" >>) }

DSPayloads == ObjectPayloads \cup WrappedPayloads \cup BarePayloads

(***************************************************************************)
(* The label of a graph node.                                              *)
(***************************************************************************)
\* d.label.length > 16
LabelBudget == 16
\* d.label.slice(0, 14)
LabelPrefix == 14
\* the character U+2026
Ellipsis == "..."

\* a label cut after LabelBudget characters
TruncateAtBudget(l) ==
    IF Len(l) > LabelBudget
    THEN SubSeq(l, 1, LabelBudget) \o << Ellipsis >> ELSE l

\* d.label.length > 16 ? d.label.slice(0, 14) + '...' : d.label
Truncate(l) ==
    IF Len(l) > LabelBudget
    THEN SubSeq(l, 1, LabelPrefix) \o << Ellipsis >> ELSE l

NoLabelEl == [appended |-> FALSE, text |-> << >>]

\* longest label drawn
MaxLabelLen == 18

LabelOffsets == 0..5

\* the label of n letters that starts at letter o + 1 of the alphabet
LabelOf(n, o) == [i \in 1..n |-> LowerCase[((o + i - 1) % 26) + 1]]

Labels == {LabelOf(n, o) : n \in 0..MaxLabelLen, o \in LabelOffsets}

LabelIdle == label = << >> /\ labelEl = NoLabelEl

\* node.append('text').text((d) => ...)
AppendLabel ==
    /\ ~labelEl.appended
    /\ labelEl' = [appended |-> TRUE, text |-> Truncate(label)]
    /\ UNCHANGED label
    /\ UNCHANGED << graphVars, dsVars, appVars, chatVars, authVars >>

(***************************************************************************)
(* The App component: the editor, the seven api actions, the loading       *)
(* overlay and the toast.                                                  *)
(***************************************************************************)
\* setTimeout(() => setToast(null), 3000), in seconds
ToastDelay == 3

\* toasts shown in a run
MaxToasts == 2

Whitespace == {" ", "\t", "\n"}

RECURSIVE TrimStart(_)
TrimStart(s) ==
    IF s # << >> /\ Head(s) \in Whitespace THEN TrimStart(Tail(s)) ELSE s

RECURSIVE TrimEnd(_)
TrimEnd(s) ==
    IF s # << >> /\ s[Len(s)] \in Whitespace
    THEN TrimEnd(SubSeq(s, 1, Len(s) - 1)) ELSE s

\* s.trim()
Trim(s) == TrimEnd(TrimStart(s))

\* !s.trim()
Blank(s) == Trim(s) = << >>

CodeTexts == { << >>, << " ", "\n" >>, << "x" >> }

ErrorTexts == { << >>, << "E" >> }

\* the api actions, named by the tab each one shows
Kinds == {"review", "rewrite", "visualize", "explain", "tests", "debug",
          "ds-viz"}

\* the tabs a click selects in a run
ClickedTabs == {"history"}

\* data.detected_language of a review: absent, or a language
Detected == {"", "java"}

\* the object an api call resolves to
Response(id) == [k |-> "obj", id |-> id]

\* the { title, sub } of the overlay of an action
Loading(kind) == [k |-> "obj", title |-> kind]

Toast(msg) == [k |-> "str", msg |-> msg]

\* the api calls of the handlers that await their answer
Awaited == {q \in requests : q.kind \in Kinds}

\* showToast without clearTimeout
ShowToastNoClear(msg) ==
    /\ toast' = Toast(msg)
    /\ timers' = timers \cup {[id |-> toastTimer + 1, left |-> ToastDelay]}
    /\ toastTimer' = toastTimer + 1
    /\ sinceToast' = 0

\* showToast(msg); setTimeout returns a fresh id
ShowToast(msg) ==
    /\ toast' = Toast(msg)
    /\ timers' = {t \in timers : t.id # toastTimer}
                     \cup {[id |-> toastTimer + 1, left |-> ToastDelay]}
    /\ toastTimer' = toastTimer + 1
    /\ sinceToast' = 0

AppIdle ==
    /\ code = << >> /\ errorMessage = << >> /\ language = "python"
    /\ activeTab = "review" /\ loading = Null
    /\ results = [kind \in Kinds |-> Null]
    /\ metricsData = Null /\ sessionHistory = << >>
    /\ requests = {} /\ nextRequest = 1
    /\ toast = Null /\ toastTimer = 0 /\ timers = {} /\ sinceToast = ToastDelay

\* onChange of the code editor, and the Clear button
SetCode(c) ==
    /\ c # code
    /\ code' = c
    /\ UNCHANGED << errorMessage, language, activeTab, loading, results,
                    metricsData, sessionHistory, requests, nextRequest,
                    toastVars >>
    /\ UNCHANGED << graphVars, dsVars, labelVars, chatVars, authVars >>

\* onChange of the error input
SetErrorMessage(e) ==
    /\ e # errorMessage
    /\ errorMessage' = e
    /\ UNCHANGED << code, language, activeTab, loading, results,
                    metricsData, sessionHistory, requests, nextRequest,
                    toastVars >>
    /\ UNCHANGED << graphVars, dsVars, labelVars, chatVars, authVars >>

\* a click on a tab
SelectTab(t) ==
    /\ t # activeTab
    /\ activeTab' = t
    /\ UNCHANGED << code, errorMessage, language, loading, results,
                    metricsData, sessionHistory, requests, nextRequest,
                    toastVars >>
    /\ UNCHANGED << graphVars, dsVars, labelVars, chatVars, authVars >>

\* the Sample button
LoadSample ==
    /\ code' = << "x" >>
    /\ ShowToast("Loaded sample")
    /\ UNCHANGED << errorMessage, language, activeTab, loading, results,
                    metricsData, sessionHistory, requests, nextRequest >>
    /\ UNCHANGED << graphVars, dsVars, labelVars, chatVars, authVars >>

\* handleReview, handleRewrite, handleVisualize, handleExplain,
\* handleGenerateTests, handleDebug, handleDSVisualize up to the await; the
\* buttons are disabled while the overlay is shown
Handle(kind) ==
    /\ loading = Null
    /\ IF Blank(code)
       THEN /\ ShowToast("Please paste some code first")
            /\ UNCHANGED << activeTab, loading, requests, nextRequest >>
       ELSE IF kind = "debug" /\ Blank(errorMessage)
       THEN /\ activeTab' = "debug"
            /\ ShowToast("Enter the error message below")
            /\ UNCHANGED << loading, requests, nextRequest >>
       ELSE /\ loading' = Loading(kind)
            /\ requests' = requests \cup
                  {[id |-> nextRequest, kind |-> kind, status |-> "pending",
                    detected |-> ""]}
            /\ nextRequest' = nextRequest + 1
            /\ UNCHANGED << activeTab, toastVars >>
    /\ UNCHANGED << code, errorMessage, language, results, metricsData,
                    sessionHistory >>
    /\ UNCHANGED << graphVars, dsVars, labelVars, chatVars, authVars >>

\* the fetch of apiCall settles: the answer, or an error
Respond(q, status, detected) ==
    /\ q \in requests
    /\ q.status = "pending"
    /\ detected # "" => (q.kind = "review" /\ status = "ok")
    /\ requests' = (requests \ {q})
                      \cup {[q EXCEPT !.status = status,
                                      !.detected = detected]}
    /\ UNCHANGED << code, errorMessage, language, activeTab, loading,
                    results, metricsData, sessionHistory, nextRequest,
                    toastVars >>
    /\ UNCHANGED << graphVars, dsVars, labelVars, chatVars, authVars >>

\* the entries saveToHistory adds for an action
Saved(kind) ==
    IF kind = "review" THEN << "Review" >>
    ELSE IF kind = "rewrite" THEN << "Rewrite" >>
    ELSE << >>

\* Continue whose catch clears the result and whose finally is missing
ContinueLosesResult(q) ==
    /\ q \in Awaited
    /\ q.status # "pending"
    /\ results' = [results EXCEPT ![q.kind] = Null]
    /\ requests' = requests \ {q}
    /\ ShowToast("Error")
    /\ UNCHANGED << code, errorMessage, language, activeTab, loading,
                    metricsData, sessionHistory, nextRequest >>
    /\ UNCHANGED << graphVars, dsVars, labelVars, chatVars, authVars >>

\* a handler after its await: the try block, or the catch block, and
\* finally setLoading(null)
Continue(q) ==
    /\ q \in Awaited
    /\ q.status # "pending"
    /\ IF q.status = "ok"
       THEN /\ results' = [results EXCEPT ![q.kind] = Response(q.id)]
            /\ activeTab' = q.kind
            /\ sessionHistory' = Saved(q.kind) \o sessionHistory
            /\ IF q.kind = "review"
               THEN /\ IF q.detected # "" /\ q.detected # language
                       THEN /\ language' = q.detected
                            /\ ShowToast("Language mismatch")
                       ELSE /\ UNCHANGED language
                            /\ ShowToast("Code review complete")
                    \* api.getMetrics(code, metricLang).then(...).catch(...)
                    /\ requests' = (requests \ {q}) \cup
                          {[id |-> nextRequest, kind |-> "metrics",
                            status |-> "pending", detected |-> ""]}
                    /\ nextRequest' = nextRequest + 1
               ELSE /\ ShowToast("Complete")
                    /\ requests' = requests \ {q}
                    /\ UNCHANGED << language, nextRequest >>
       ELSE /\ ShowToast("Error")
            /\ requests' = requests \ {q}
            /\ UNCHANGED << results, activeTab, sessionHistory, language,
                            nextRequest >>
    /\ loading' = Null
    /\ UNCHANGED << code, errorMessage, metricsData >>
    /\ UNCHANGED << graphVars, dsVars, labelVars, chatVars, authVars >>

\* .then(setMetricsData).catch(() => { })
SettleMetrics(q) ==
    /\ q \in requests
    /\ q.kind = "metrics"
    /\ q.status # "pending"
    /\ metricsData' = IF q.status = "ok" THEN Response(q.id) ELSE metricsData
    /\ requests' = requests \ {q}
    /\ UNCHANGED << code, errorMessage, language, activeTab, loading,
                    results, sessionHistory, nextRequest, toastVars >>
    /\ UNCHANGED << graphVars, dsVars, labelVars, chatVars, authVars >>

\* a second passes
Elapse ==
    /\ timers # {} \/ sinceToast < ToastDelay
    /\ timers' = {[t EXCEPT !.left = IF t.left > 0 THEN t.left - 1 ELSE 0] :
                     t \in timers}
    /\ sinceToast' = IF sinceToast < ToastDelay THEN sinceToast + 1
                     ELSE ToastDelay
    /\ UNCHANGED << toast, toastTimer >>
    /\ UNCHANGED << code, errorMessage, language, activeTab, loading,
                    results, metricsData, sessionHistory, requests,
                    nextRequest >>
    /\ UNCHANGED << graphVars, dsVars, labelVars, chatVars, authVars >>

\* the callback of a timeout whose delay has passed: () => setToast(null)
FireTimer(t) ==
    /\ t \in timers
    /\ t.left = 0
    /\ toast' = Null
    /\ timers' = timers \ {t}
    /\ UNCHANGED << toastTimer, sinceToast >>
    /\ UNCHANGED << code, errorMessage, language, activeTab, loading,
                    results, metricsData, sessionHistory, requests,
                    nextRequest >>
    /\ UNCHANGED << graphVars, dsVars, labelVars, chatVars, authVars >>

\* toasts that may still be shown, one kept for each awaited answer
ToastsLeft == MaxToasts - toastTimer - Cardinality(Awaited)

NextApp ==
    \/ \E c \in CodeTexts : SetCode(c)
    \/ \E e \in ErrorTexts : SetErrorMessage(e)
    \/ \E t \in ClickedTabs : SelectTab(t)
    \/ (ToastsLeft > 0 /\ LoadSample)
    \/ (ToastsLeft > 0 /\ \E kind \in Kinds : Handle(kind))
    \/ \E q \in requests, status \in {"ok", "err"}, detected \in Detected :
          Respond(q, status, detected)
    \/ \E q \in requests : Continue(q)
    \/ \E q \in requests : SettleMetrics(q)
    \/ Elapse
    \/ \E t \in timers : FireTimer(t)

(***************************************************************************)
(* The chat panel of App.                                                  *)
(***************************************************************************)
\* messages sent in a run
MaxChats == 3

ChatTexts == { << >>, << " " >>, << "h", "i" >> }

UserMessages == SelectSeq(chatMessages, LAMBDA m : m.role = "user")

AiMessages == SelectSeq(chatMessages, LAMBDA m : m.role = "ai")

ChatIdle ==
    /\ chatInput = << >> /\ chatMessages = << >>
    /\ chatLoading = FALSE /\ chatRequests = {}

\* onChange of the chat input
SetChatInput(s) ==
    /\ s # chatInput
    /\ chatInput' = s
    /\ UNCHANGED << chatMessages, chatLoading, chatRequests >>
    /\ UNCHANGED << graphVars, dsVars, labelVars, appVars, authVars >>

\* handleChat up to the await
HandleChat ==
    /\ IF Blank(chatInput)
       THEN UNCHANGED chatVars
       ELSE /\ chatInput' = << >>
            /\ chatMessages' = Append(chatMessages,
                  [role |-> "user", content |-> Str(chatInput)])
            /\ chatLoading' = TRUE
            /\ chatRequests' = chatRequests \cup
                  {[id |-> Len(UserMessages) + 1, message |-> chatInput]}
    /\ UNCHANGED << graphVars, dsVars, labelVars, appVars, authVars >>

\* data.response of the answer to request q
Answer(q) == [k |-> "response", to |-> q.id]

\* `Error: ${err.message}` for request q
ErrorText(q) == [k |-> "error", to |-> q.id]

\* handleChat after its await: the try or the catch block, then
\* setChatLoading(false)
ChatSettle(q, ok) ==
    /\ q \in chatRequests
    /\ chatMessages' = Append(chatMessages,
          [role |-> "ai",
           content |-> IF ok THEN Answer(q) ELSE ErrorText(q)])
    /\ chatLoading' = FALSE
    /\ chatRequests' = chatRequests \ {q}
    /\ UNCHANGED chatInput
    /\ UNCHANGED << graphVars, dsVars, labelVars, appVars, authVars >>

NextChat ==
    \/ \E s \in ChatTexts : SetChatInput(s)
    \* onKeyDown: Enter
    \/ (Len(UserMessages) < MaxChats /\ HandleChat)
    \* the send button, disabled={chatLoading || !chatInput.trim()}
    \/ (/\ Len(UserMessages) < MaxChats
        /\ ~chatLoading /\ ~Blank(chatInput)
        /\ HandleChat)
    \/ \E q \in chatRequests, ok \in BOOLEAN : ChatSettle(q, ok)

(***************************************************************************)
(* The session credentials kept in localStorage (utils/api.js).            *)
(***************************************************************************)
\* what localStorage.setItem(key, v) stores: String(v)
StorageString(v) ==
    IF v = Undef
    THEN Str(<< "u", "n", "d", "e", "f", "i", "n", "e", "d" >>)
    ELSE v

\* JSON.stringify(v): undefined for undefined
Stringify(v) == IF v = Undef THEN Undef ELSE Json(v)

\* JSON.parse(s): Throw for a text that is not JSON
Parse(s) == IF s.k = "json" THEN s.of ELSE Throw

User(name) == [k |-> "obj", name |-> name]

Token == Str(<< "t", "1" >>)

\* a text that is not JSON
Garbage == Str(<< "{" >>)

\* the data of a successful register or login answer
AuthData ==
    { [token |-> Token, user |-> u] : u \in {User("ann"), Undef} }

\* what else may put or remove an item of the origin's storage
Edits == {Null, Garbage}

NoCall == [read |-> [sage_token |-> Null, sage_user |-> Null],
           user |-> Undef]

AuthIdle ==
    /\ storage = [sage_token |-> Null, sage_user |-> Null]
    /\ logout = FALSE
    /\ saved = NoCall

\* getSavedUser without the token
GetSavedUserNoToken(st) ==
    IF Truthy(st.sage_user)
    THEN (IF Parse(st.sage_user) = Throw THEN Null
          ELSE Parse(st.sage_user))
    ELSE Null

\* getSavedUser()
GetSavedUser(st) ==
    IF Truthy(st.sage_user) /\ Truthy(st.sage_token)
    THEN (IF Parse(st.sage_user) = Throw THEN Null
          ELSE Parse(st.sage_user))
    ELSE Null

\* clearToken()
ClearToken(st) == [sage_token |-> Null, sage_user |-> Null]

\* registerUser and loginUser after the await: setToken(data.token);
\* localStorage.setItem('sage_user', JSON.stringify(data.user))
LoginUser(d) ==
    /\ storage' = [sage_token |-> StorageString(d.token),
                   sage_user |-> StorageString(Stringify(d.user))]
    /\ storage' # storage
    /\ UNCHANGED << logout, saved >>
    /\ UNCHANGED << graphVars, dsVars, labelVars, appVars, chatVars >>

\* another script of the origin, or the user, changes an item
EditStorage(key, v) ==
    /\ storage[key] # v
    /\ storage' = [storage EXCEPT ![key] = v]
    /\ UNCHANGED << logout, saved >>
    /\ UNCHANGED << graphVars, dsVars, labelVars, appVars, chatVars >>

\* logoutUser up to the await
LogoutUser ==
    /\ ~logout
    /\ logout' = TRUE
    /\ UNCHANGED << storage, saved >>
    /\ UNCHANGED << graphVars, dsVars, labelVars, appVars, chatVars >>

\* logoutUser after the await, whether apiCall resolved or threw
LogoutSettle(ok) ==
    /\ logout
    /\ logout' = FALSE
    /\ storage' = ClearToken(storage)
    /\ UNCHANGED saved
    /\ UNCHANGED << graphVars, dsVars, labelVars, appVars, chatVars >>

\* a call of getSavedUser
CallGetSavedUser ==
    /\ saved' = [read |-> storage, user |-> GetSavedUser(storage)]
    /\ saved' # saved
    /\ UNCHANGED << storage, logout >>
    /\ UNCHANGED << graphVars, dsVars, labelVars, appVars, chatVars >>

NextAuth ==
    \/ \E d \in AuthData : LoginUser(d)
    \/ \E key \in {"sage_token", "sage_user"}, v \in Edits :
          EditStorage(key, v)
    \/ LogoutUser
    \/ \E ok \in BOOLEAN : LogoutSettle(ok)
    \/ CallGetSavedUser

PageIdle == LabelIdle /\ AppIdle /\ ChatIdle /\ AuthIdle

GraphIdle ==
    /\ app = "react" /\ mounted = FALSE /\ inst = 1 /\ data = 0
    /\ renders = << >> /\ container = << >> /\ legend = << >>
    /\ dragging = << >> /\ raised = {} /\ graph = PristineGraph

DSIdle == dsData = Payload(Undef, Undef, Undef, Undef, Undef)
          /\ dsView = NoView /\ dsFirst = NoView /\ dsDom = NoDom

Init == GraphInit /\ DSIdle /\ PageIdle

DSInit ==
    /\ GraphIdle
    /\ PageIdle
    /\ dsData \in DSPayloads
    /\ dsView = NoView
    /\ dsFirst = NoView
    /\ dsDom = NoDom

\* React renders <DSVisualizer data={dsVizData} />
RenderDS ==
    /\ dsView = NoView
    /\ dsView' = DSVisualizer(dsData)
    /\ dsDom' = Dom(dsView')
    /\ UNCHANGED << dsData, dsFirst >>
    /\ UNCHANGED << graphVars, pageVars >>

\* the type string that names a kind of chain
KindType(kind) ==
    IF kind = "stack" THEN Str(<< "s", "t", "a", "c", "k" >>)
    ELSE IF kind = "queue" THEN Str(<< "q", "u", "e", "u", "e" >>)
    ELSE Str(<< "l", "i", "s", "t" >>)

\* the normal form of a Linear or Tree view as a payload
NormalForm(view) ==
    IF view.shape = "linear"
    THEN Payload(Undef, KindType(view.kind), Arr(view.items), Undef, Undef)
    ELSE Payload(Undef, Str(<< "t", "r", "e", "e" >>), Undef, view.root, Undef)

\* the normal form of the view is classified in turn
Reclassify ==
    /\ dsFirst = NoView
    /\ dsView.shape \in {"linear", "tree"}
    /\ dsFirst' = dsView
    /\ dsData' = NormalForm(dsView)
    /\ dsView' = NoView
    /\ dsDom' = NoDom
    /\ UNCHANGED << graphVars, pageVars >>

NextDS == RenderDS \/ Reclassify

SpecDS == DSInit /\ [][NextDS]_vars

(***************************************************************************)
(* Specifications of the flow-graph renderer.                              *)
(***************************************************************************)
\* lifecycle of the renders and their simulations
NextLife ==
    \/ (Len(renders) < MaxRenders /\ \E p \in PayloadIds : Mount(p))
    \/ (Len(renders) < MaxRenders /\ \E p \in PayloadIds : SetData(p))
    \/ (Len(renders) < MaxRenders /\ ToggleTheme)
    \/ (Len(renders) < MaxRenders /\ \E p \in PayloadIds : RenderD3Graph(p))
    \/ (inst <= MaxUnmounts /\ Unmount)
    \/ \E r \in 1..MaxRenders : ImportResolve(r)
    \/ \E r \in 1..MaxRenders : Tick(r)

SpecLife == Init /\ [][NextLife]_vars

\* render requests and the user's gestures on the graph while it is shown
\* (closing the view is part of SpecLife)
Next ==
    \/ (Len(renders) < MaxGestureRenders /\ \E p \in PayloadIds : Mount(p))
    \/ (Len(renders) < MaxGestureRenders /\ \E p \in PayloadIds : SetData(p))
    \/ (Len(renders) < MaxGestureRenders /\ ToggleTheme)
    \/ (Len(renders) < MaxGestureRenders
          /\ \E p \in PayloadIds : RenderD3Graph(p))
    \/ \E r \in 1..MaxGestureRenders : ImportResolve(r)
    \/ \E r \in 1..MaxGestureRenders : Tick(r)
    \/ \E r \in 1..MaxGestureRenders, i \in 1..2 : DragStart(r, i)
    \/ \E e \in Points : DragMove(e)
    \/ DragEnd
    \/ \E r \in 1..MaxGestureRenders, k \in ZoomRequests : Zoom(r, k)
    \/ \E r \in 1..MaxGestureRenders, t \in PanOffsets : Pan(r, t)

Spec == Init /\ [][Next]_vars

\* a graph that is drawn again and again (theme changes, repeated calls of
\* renderD3Graph), the simulations of the draws and drag gestures
NextCopies ==
    \/ (Len(renders) < MaxRenders /\ \E p \in PayloadIds : Mount(p))
    \/ (Len(renders) < MaxRenders /\ ToggleTheme)
    \/ (Len(renders) < MaxRenders /\ \E p \in PayloadIds : RenderD3Graph(p))
    \/ \E r \in 1..MaxRenders : ImportResolve(r)
    \/ \E r \in 1..MaxRenders : Tick(r)
    \/ \E r \in 1..MaxRenders, i \in 1..2 : DragStart(r, i)
    \/ \E e \in Points : DragMove(e)
    \/ DragEnd

SpecCopies == Init /\ [][NextCopies]_vars

(***************************************************************************)
(* The simulation timer under drag gestures.  d3.timer calls the step of   *)
(* a running simulation on every animation frame, so a simulation that     *)
(* stays running is stepped again: weak fairness of each Tick.             *)
(***************************************************************************)
NextSim ==
    \/ (Len(renders) < MaxGestureRenders /\ \E p \in PayloadIds : Mount(p))
    \/ (Len(renders) < MaxGestureRenders
          /\ \E p \in PayloadIds : RenderD3Graph(p))
    \/ \E r \in 1..MaxGestureRenders : ImportResolve(r)
    \/ \E r \in 1..MaxGestureRenders : Tick(r)
    \/ \E r \in 1..MaxGestureRenders, i \in 1..2 : DragStart(r, i)
    \/ \E e \in Points : DragMove(e)
    \/ DragEnd

SpecSim ==
    /\ Init
    /\ [][NextSim]_vars
    /\ \A r \in 1..MaxGestureRenders : WF_vars(Tick(r))

(***************************************************************************)
(* Properties of the flow-graph renderer.                                  *)
(***************************************************************************)
\* the renders whose draw has run and whose objects are still alive
Drawn == {r \in DOMAIN renders : renders[r].phase \in {"drawn", "failed"}}

PayloadOf(r) == GraphPayloads[renders[r].p]

NodeIds(pl) == {pl.nodes[i].id : i \in DOMAIN pl.nodes}

\* link j of payload pl names two nodes of pl
ValidLink(pl, j) ==
    /\ EndpointId(pl.links[j].source) \in NodeIds(pl)
    /\ EndpointId(pl.links[j].target) \in NodeIds(pl)

\* C1: every link drawn as a line ends at two nodes of the payload's node
\* list, namely the nodes its source and target ids name; a link with an
\* id that matches no node is never drawn.
C1_DrawnLinksHaveEndpoints ==
    \A r \in Drawn :
        LET rec == renders[r]
            pl == PayloadOf(r)
        IN  /\ Len(rec.lines) <= Len(pl.links)
            /\ \A l \in DOMAIN rec.lines :
                 /\ ValidLink(pl, l)
                 /\ rec.lines[l].source \in DOMAIN rec.nodes
                 /\ rec.lines[l].target \in DOMAIN rec.nodes
                 /\ rec.nodes[rec.lines[l].source].id
                        = EndpointId(pl.links[l].source)
                 /\ rec.nodes[rec.lines[l].target].id
                        = EndpointId(pl.links[l].target)

\* a graph with lines was drawn, and a draw with a dangling link has run
C1_Witness ==
    /\ \E r \in Drawn : renders[r].phase = "drawn" /\ Len(renders[r].lines) > 0
    /\ \E r \in Drawn : \E j \in DOMAIN PayloadOf(r).links :
           ~ValidLink(PayloadOf(r), j)

\* C2: a payload with valid links and a link to a missing node is rendered
\* without an error: all nodes and exactly the valid links are drawn, the
\* tick handler and the legend are installed.
C2_DanglingLinkIsSkipped ==
    \A r \in Drawn :
        LET rec == renders[r]
            pl == PayloadOf(r)
            valid == {j \in DOMAIN pl.links : ValidLink(pl, j)}
        IN  (pl.hasNodes /\ valid # {} /\ valid # DOMAIN pl.links) =>
               /\ r \notin raised
               /\ rec.nodeEls = Len(pl.nodes)
               /\ Len(rec.lines) = Cardinality(valid)
               /\ rec.tickOn
               /\ (rec.inst = inst => legend = LegendItems(rec.nodes))

\* C3: once a new render was requested for a container, the tick handler
\* of an earlier simulation of that container never runs again.
C3_NoTickAfterNewRender ==
    [][\A r \in DOMAIN renders :
          (Tick(r) /\ renders[r].tickOn) => ~Superseded(r)]_vars

\* C4: the container holds at most one svg and one tooltip, and they are
\* those of the most recent render request.
C4_OneDiagramOfLatestRequest ==
    /\ Cardinality({c \in DOMAIN container : container[c].kind = "svg"}) <= 1
    /\ Cardinality({c \in DOMAIN container :
                       container[c].kind = "tooltip"}) <= 1
    /\ \A c \in DOMAIN container : container[c].r = Len(renders)

\* C5: no simulation ticks after its D3Graph component was unmounted.
C5_NoTickAfterUnmount ==
    [][\A r \in DOMAIN renders : Tick(r) => renders[r].inst = inst]_vars

\* C6: from drag-start to drag-end the dragged node is pinned: its pin is
\* set, only a drag-move changes the pin, and its position changes only by
\* a tick putting it on the pin; drag-end clears the pin; a node that is
\* not being dragged has no pin.
C6_DragPinning ==
    [][\A r \in DOMAIN renders' : \A i \in DOMAIN renders'[r].nodes :
          LET m == renders'[r].nodes[i]
          IN  /\ (dragging' = << r, i >>) = (m.fx # NoPin)
              /\ (dragging' = << r, i >>) = (m.fy # NoPin)
              /\ (dragging = << r, i >> /\ dragging' = << r, i >>) =>
                   LET n == renders[r].nodes[i]
                   IN  /\ (<< m.fx, m.fy >> # << n.fx, n.fy >>
                             => \E e \in Points : DragMove(e))
                       /\ (<< m.x, m.y >> # << n.x, n.y >>
                             => /\ Tick(r)
                                /\ << m.x, m.y >> = << n.fx, n.fy >>)]_vars

\* a dragged node whose pin was moved by the pointer and applied by a tick
C6_Witness ==
    /\ dragging # << >>
    /\ LET n == renders[dragging[1]].nodes[dragging[2]]
       IN  /\ << n.x, n.y >> = << n.fx, n.fy >>
           /\ << n.x, n.y >> # InitialPosition(dragging[2])

\* C7: a simulation has exactly the payload's nodes, in order, with their
\* id, label, type and detail, and each of its links is built from a link
\* of the payload.
C7_NothingFabricated ==
    \A r \in Drawn :
        LET rec == renders[r]
            pl == PayloadOf(r)
        IN  pl.hasNodes =>
              /\ Len(rec.nodes) = Len(pl.nodes)
              /\ \A i \in DOMAIN rec.nodes :
                   /\ rec.nodes[i].id = pl.nodes[i].id
                   /\ rec.nodes[i].label = pl.nodes[i].label
                   /\ rec.nodes[i].type = pl.nodes[i].type
                   /\ rec.nodes[i].detail = pl.nodes[i].detail
              /\ Len(rec.links) <= Len(pl.links)
              /\ \A l \in DOMAIN rec.links : \E j \in DOMAIN pl.links :
                   /\ rec.links[l].source \in DOMAIN rec.nodes
                   /\ rec.links[l].target \in DOMAIN rec.nodes
                   /\ rec.nodes[rec.links[l].source].id
                          = EndpointId(pl.links[j].source)
                   /\ rec.nodes[rec.links[l].target].id
                          = EndpointId(pl.links[j].target)
                   /\ rec.links[l].label = pl.links[j].label

\* a drawn graph with a detail text that was ticked, zoomed and is dragged
C7_Witness ==
    \E r \in Drawn :
        /\ renders[r].phase = "drawn"
        /\ dragging # << >> /\ dragging[1] = r
        /\ renders[r].alpha < AlphaTicks
        /\ \E i \in DOMAIN renders[r].nodes : renders[r].nodes[i].detail # ""
        /\ \E c \in DOMAIN container :
              IsSvgOf(container[c], r) /\ container[c].k # ScaleIdentity

\* C10: the scale of every drawing group stays within [0.3, 3]; a zoom
\* request below 0.3 gives 0.3 and one above 3 gives 3.
C10_ZoomClamp ==
    [][\A c \in DOMAIN container' :
          container'[c].kind = "svg" =>
            /\ container'[c].k >= 3 /\ container'[c].k <= 30
            /\ \A k \in ZoomRequests :
                 Zoom(container'[c].r, k) =>
                   /\ (k < 3 => container'[c].k = 3)
                   /\ (k > 30 => container'[c].k = 30)
                   /\ (k >= 3 /\ k <= 30 => container'[c].k = k)]_vars

\* a drawing group zoomed to the upper end of the extent and panned
C10_Witness ==
    \E c \in DOMAIN container :
        /\ container[c].kind = "svg"
        /\ container[c].k = 30
        /\ container[c].tx # 0

C9_ClassifierIdempotent ==
    (dsFirst # NoView /\ dsView # NoView) =>
        /\ dsView.shape = dsFirst.shape
        /\ dsView.kind = dsFirst.kind
        /\ dsView.items = dsFirst.items
        /\ dsView.root = dsFirst.root

\* a chain of serialized objects was classified twice
C9_Witness ==
    /\ dsFirst # NoView /\ dsView # NoView
    /\ dsView.shape = "linear"
    /\ \E i \in DOMAIN dsView.items : dsView.items[i].k = "json"

(***************************************************************************)
(* Properties of the object graph.                                         *)
(***************************************************************************)
\* C11: rendering, ticking and dragging leave the caller's payload objects
\* as they were, and two renders never have a node object or a link object
\* in common, so that each simulation writes to its own copies only.
C11_PayloadUntouched ==
    /\ graph = PristineGraph
    /\ \A r \in Drawn : \A q \in Drawn \ {r} :
         /\ \A i \in DOMAIN renders[r].nodes :
              \A j \in DOMAIN renders[q].nodes :
                 NodeAddress(r, renders[r].p, i)
                     # NodeAddress(q, renders[q].p, j)
         /\ \A i \in DOMAIN renders[r].links :
              \A j \in DOMAIN renders[q].links :
                 LinkAddress(r, renders[r].p, i)
                     # LinkAddress(q, renders[q].p, j)

\* two simulations of one payload are alive, the earlier still running, the
\* later one ticked and holding a dragged node
C11_Witness ==
    \E r \in Drawn : \E q \in Drawn :
        /\ r < q
        /\ renders[r].p = renders[q].p
        /\ renders[r].phase = "drawn" /\ renders[q].phase = "drawn"
        /\ renders[r].running
        /\ dragging # << >> /\ dragging[1] = q
        /\ \E i \in DOMAIN renders[q].nodes :
              << renders[q].nodes[i].x, renders[q].nodes[i].y >>
                  # InitialPosition(i)

(***************************************************************************)
(* Empty input.                                                            *)
(***************************************************************************)
\* the structure payload has neither nodes nor a root
NoNodesNoRoot(props) ==
    LET struct == Unwrap(props)
    IN  /\ ~Truthy(Get(struct, "nodes")) \/ Get(struct, "nodes") = Arr(<< >>)
        /\ ~Truthy(Get(struct, "root"))
        /\ struct.k # "arr"

\* C12: while a graph payload without nodes is shown, the graph container
\* holds a notice; a structure payload with neither nodes nor root is
\* rendered as a text notice.
C12_EmptyInputNotice ==
    /\ (mounted /\ data \in PayloadIds /\ ~GraphPayloads[data].hasNodes) =>
          \E c \in DOMAIN container : container[c].kind = "notice"
    /\ (dsView # NoView /\ NoNodesNoRoot(dsData)) => dsView.shape = "text"

(***************************************************************************)
(* Properties of the tree renderer.                                        *)
(***************************************************************************)
RECURSIVE NodeEls(_)
\* the rendered nodes of an element
NodeEls(el) ==
    IF el.kind # "node" THEN {}
    ELSE {el} \cup (IF el.row = << >> THEN {}
                    ELSE NodeEls(el.row[1]) \cup NodeEls(el.row[2]))

RECURSIVE MarkerTexts(_)
\* what the circles of an element show, parent first, then left, then right
MarkerTexts(el) ==
    IF el.kind # "node" THEN << >>
    ELSE << el.marker >>
         \o (IF el.row = << >> THEN << >>
             ELSE MarkerTexts(el.row[1]) \o MarkerTexts(el.row[2]))

RECURSIVE TreeValues(_)
\* the values of the tree nodes of a payload, under either key, parent
\* first, then left, then right
TreeValues(n) ==
    IF ~Truthy(n) THEN << >>
    ELSE << Coalesce(Get(n, "val"), Get(n, "value")) >>
         \o TreeValues(Get(n, "left")) \o TreeValues(Get(n, "right"))

\* C13: a rendered tree node has no child row or a row of exactly two
\* slots, and an empty slot is as wide as a slot that holds a node (the
\* narrowest such slot, one holding a leaf, is taken for the comparison).
C13_TreeSymmetry ==
    dsDom.tag = "tree" =>
        \A el \in NodeEls(dsDom.children[1]) :
            \/ el.row = << >>
            \/ /\ Len(el.row) = 2
               /\ \A slot \in 1..2 :
                    el.row[slot].kind = "placeholder" =>
                        OuterWidth(el.row[slot])
                            = OuterWidth(RenderNode(Leaf(Num(0))))

\* C14: the rendered tree has one circle per tree node of the payload, and
\* each circle shows the value of its node, given as val or as value.
C14_OneMarkerPerNode ==
    dsDom.tag = "tree" =>
        MarkerTexts(dsDom.children[1]) = TreeValues(dsView.root)

(***************************************************************************)
(* Properties of the chain and the cluster.                                *)
(***************************************************************************)
\* the nodes array of the payload, << >> when it has none
PayloadNodes(props) ==
    LET nodes == Get(Unwrap(props), "nodes")
    IN  IF nodes.k = "arr" THEN nodes.items ELSE << >>

\* C15: the chain of a Linear shape with n items is n boxes in input order,
\* each followed by an arrow, then one NULL mark and nothing else; a
\* payload's scalar nodes are shown as they are; the heading is Stack for
\* kind stack, Queue for kind queue, Linked List otherwise.
C15_LinearChain ==
    dsDom.tag = "chain" =>
        LET n == Len(dsView.items)
            ch == dsDom.children
            nodes == PayloadNodes(dsData)
        IN  /\ Len(ch) = 2 * n + 1
            /\ \A i \in 1..n :
                 ch[2 * i - 1] = Box(dsView.items[i]) /\ ch[2 * i] = Arrow
            /\ ch[Len(ch)] = NullMark
            /\ Cardinality({i \in DOMAIN ch : ch[i] = NullMark}) = 1
            /\ nodes # << >> =>
                 /\ n = Len(nodes)
                 /\ \A i \in 1..n :
                      nodes[i].k \in {"num", "str"} =>
                          ch[2 * i - 1].text = nodes[i]
            /\ dsView.kind = "stack" => dsDom.heading = "Stack"
            /\ dsView.kind = "queue" => dsDom.heading = "Queue"
            /\ dsView.kind \notin {"stack", "queue"} =>
                 dsDom.heading = "Linked List"

\* the queue of three numbers is drawn
C15_Witness ==
    /\ dsDom.tag = "chain"
    /\ dsDom.heading = "Queue"
    /\ PayloadNodes(dsData) = << Num(1), Num(2), Num(3) >>
    /\ Len(dsDom.children) = 7

(***************************************************************************)
(* Properties of the legend.                                               *)
(***************************************************************************)
\* C16: once the draw of the latest render request has run, the legend has
\* one item per node type of that request's graph, without duplicates and
\* without any other type, each labelled with the capitalized type name.
C16_LegendOfCurrentGraph ==
    LET r == Len(renders)
    IN  (/\ r > 0 /\ mounted
         /\ renders[r].inst = inst
         /\ renders[r].phase \in {"drawn", "failed"}) =>
            LET pl == PayloadOf(r)
                types == {pl.nodes[i].type : i \in DOMAIN pl.nodes}
            IN  /\ \A i \in DOMAIN legend : \A j \in DOMAIN legend :
                     i # j => legend[i].text # legend[j].text
                /\ {legend[i].text : i \in DOMAIN legend}
                       = {Capitalize(t) : t \in types}

(***************************************************************************)
(* Properties of the classification.                                       *)
(***************************************************************************)
\* the type of the payload after lower-casing and stripping separators
\* (the empty string when the payload has no type string)
NormalType(props) ==
    LET t == Get(Unwrap(props), "type")
    IN  IF t.k = "str" THEN NormalizeType(t.s) ELSE << >>

\* the normalized type contains one of linked, list, array, stack, queue
HasLinearWord(t) ==
    \E w \in { << "l", "i", "n", "k", "e", "d" >>, << "l", "i", "s", "t" >>,
                << "a", "r", "r", "a", "y" >>, << "s", "t", "a", "c", "k" >>,
                << "q", "u", "e", "u", "e" >> } : Includes(t, w)

\* the normalized type contains one of tree, binary, bst, heap
HasTreeWord(t) ==
    \E w \in { << "t", "r", "e", "e" >>, << "b", "i", "n", "a", "r", "y" >>,
                << "b", "s", "t" >>, << "h", "e", "a", "p" >> } : Includes(t, w)

PayloadRoot(props) == Get(Unwrap(props), "root")

\* C17: a payload with nodes whose normalized type contains one of linked,
\* list, array, stack, queue is classified Linear.
C17_LinearWordIsLinear ==
    (/\ dsView # NoView
     /\ HasLinearWord(NormalType(dsData))
     /\ PayloadNodes(dsData) # << >>) => dsView.shape = "linear"

\* C18 as stated: a payload with a root whose normalized type contains one
\* of tree, binary, bst, heap is classified Tree with that root.
C18_TreeWordIsTree ==
    (/\ dsView # NoView
     /\ HasTreeWord(NormalType(dsData))
     /\ Truthy(PayloadRoot(dsData))) =>
        dsView.shape = "tree" /\ dsView.root = PayloadRoot(dsData)

\* C18, amended: a payload with a root whose normalized type contains one
\* of tree, binary, bst, heap and none of linked, list, array, stack, queue
\* is classified Tree, and the Tree shape and the rendered tree are built
\* from the payload's root as it is, left and right children in place.
C18_TreeWordOnlyIsTree ==
    (/\ dsView # NoView
     /\ HasTreeWord(NormalType(dsData))
     /\ ~HasLinearWord(NormalType(dsData))
     /\ Truthy(PayloadRoot(dsData))) =>
        /\ dsView.shape = "tree"
        /\ dsView.root = PayloadRoot(dsData)
        /\ dsDom.children = << RenderNode(PayloadRoot(dsData)) >>

\* the binary tree 5 (3, 8) is classified although the payload also has a
\* nodes array
C18_Witness ==
    /\ dsView.shape = "tree"
    /\ NormalType(dsData)
          = << "b", "i", "n", "a", "r", "y", "t", "r", "e", "e" >>
    /\ PayloadNodes(dsData) # << >>
    /\ dsView.root = Obj(Num(5), Undef, Leaf(Num(3)), Leaf(Num(8)), Undef)

\* C19 as stated: a payload without root whose type contains a tree word
\* and whose nodes array is not empty is drawn as a cluster: one marker
\* per element, in order, and nothing else.
C19_TreeNodesAreCluster ==
    (/\ dsView # NoView
     /\ HasTreeWord(NormalType(dsData))
     /\ ~Truthy(PayloadRoot(dsData))
     /\ PayloadNodes(dsData) # << >>) =>
        /\ dsDom.tag = "cluster"
        /\ Len(dsDom.children) = Len(PayloadNodes(dsData))
        /\ \A i \in DOMAIN dsDom.children :
             /\ dsDom.children[i].kind = "marker"
             /\ PayloadNodes(dsData)[i].k \in {"num", "str"} =>
                  dsDom.children[i].text = PayloadNodes(dsData)[i]

\* C19, amended: the same for a type that contains a tree word and none of
\* linked, list, array, stack, queue.
C19_TreeOnlyNodesAreCluster ==
    (/\ dsView # NoView
     /\ HasTreeWord(NormalType(dsData))
     /\ ~HasLinearWord(NormalType(dsData))
     /\ ~Truthy(PayloadRoot(dsData))
     /\ PayloadNodes(dsData) # << >>) =>
        /\ dsDom.tag = "cluster"
        /\ Len(dsDom.children) = Len(PayloadNodes(dsData))
        /\ \A i \in DOMAIN dsDom.children :
             /\ dsDom.children[i].kind = "marker"
             /\ PayloadNodes(dsData)[i].k \in {"num", "str"} =>
                  dsDom.children[i].text = PayloadNodes(dsData)[i]

\* a heap given as a flat array of three numbers is drawn as a cluster
C19_Witness ==
    /\ dsDom.tag = "cluster"
    /\ NormalType(dsData) = << "m", "i", "n", "h", "e", "a", "p" >>
    /\ PayloadNodes(dsData) = << Num(1), Num(2), Num(3) >>
    /\ Len(dsDom.children) = 3

\* C20 as stated: a payload with a root whose type has neither a linear nor
\* a tree word is classified Linear, with the values of the root's nodes in
\* pre-order as items (a tree node without val and value counts as its own
\* value).
C20_RootIsFlattenedPreorder ==
    (/\ dsView # NoView
     /\ ~HasLinearWord(NormalType(dsData))
     /\ ~HasTreeWord(NormalType(dsData))
     /\ Truthy(PayloadRoot(dsData))) =>
        /\ dsView.shape = "linear"
        /\ Len(dsView.items) = Len(TreeValues(PayloadRoot(dsData)))
        /\ \A i \in DOMAIN dsView.items :
             TreeValues(PayloadRoot(dsData))[i].k # "undef" =>
                 dsView.items[i] = TreeValues(PayloadRoot(dsData))[i]

\* C20, amended: the same for a payload that has no nodes of its own: its
\* items are the values of the root's nodes, parent, then the whole left
\* subtree, then the whole right subtree, one item per tree node.
C20_RootWithoutNodesIsFlattened ==
    (/\ dsView # NoView
     /\ ~HasLinearWord(NormalType(dsData))
     /\ ~HasTreeWord(NormalType(dsData))
     /\ PayloadNodes(dsData) = << >>
     /\ Truthy(PayloadRoot(dsData))) =>
        /\ dsView.shape = "linear"
        /\ Len(dsView.items) = Len(TreeValues(PayloadRoot(dsData)))
        /\ \A i \in DOMAIN dsView.items :
             TreeValues(PayloadRoot(dsData))[i].k # "undef" =>
                 dsView.items[i] = TreeValues(PayloadRoot(dsData))[i]

\* the tree 5 (3, 8) of a payload of type graph became the chain 5, 3, 8
C20_Witness ==
    /\ NormalType(dsData) = << "g", "r", "a", "p", "h" >>
    /\ PayloadNodes(dsData) = << >>
    /\ PayloadRoot(dsData)
          = Obj(Num(5), Undef, Leaf(Num(3)), Leaf(Num(8)), Undef)
    /\ dsView.shape = "linear"
    /\ dsView.items = << Num(5), Num(3), Num(8) >>

(***************************************************************************)
(* The label, the App handlers with the toast, the chat and the            *)
(* credentials, each on its own.                                           *)
(***************************************************************************)
LabelInit ==
    /\ GraphIdle /\ DSIdle /\ AppIdle /\ ChatIdle /\ AuthIdle
    /\ label \in Labels
    /\ labelEl = NoLabelEl

NextLabel == AppendLabel

SpecLabel == LabelInit /\ [][NextLabel]_vars

PageInit == GraphIdle /\ DSIdle /\ PageIdle

SpecApp == PageInit /\ [][NextApp]_vars

SpecChat == PageInit /\ [][NextChat]_vars

SpecAuth == PageInit /\ [][NextAuth]_vars

(***************************************************************************)
(* Properties of the bare array, the fallback text and the values shown.   *)
(***************************************************************************)
\* what a renderable value is shown as: a scalar as itself, an object as
\* its val when it has one, else its value when it has one, else its JSON
\* form; 0 and the empty string are a val or a value like any other
Renderable(v) ==
    IF v.k \in {"num", "str", "json"} THEN v
    ELSE IF Get(v, "val").k \notin {"undef", "null"} THEN Get(v, "val")
    ELSE IF Get(v, "value").k \notin {"undef", "null"} THEN Get(v, "value")
    ELSE Json(v)

\* C21: a payload that is a bare array with elements is classified Linear,
\* with one item per element, in the order of the array, each the shown
\* form of its element; an element that is 0 or the empty string is kept.
C21_BareArrayIsLinear ==
    (dsView # NoView /\ dsData.k = "arr" /\ dsData.items # << >>) =>
        /\ dsView.shape = "linear"
        /\ Len(dsView.items) = Len(dsData.items)
        /\ \A i \in DOMAIN dsData.items :
             dsView.items[i] = Renderable(dsData.items[i])

\* the array 0, '', 0 became the chain of the same three items
C21_Witness ==
    /\ dsData = Arr(<< Num(0), Str(<< >>), Num(0) >>)
    /\ dsView.shape = "linear"
    /\ dsView.items = << Num(0), Str(<< >>), Num(0) >>
    /\ dsDom.tag = "chain"

\* the description of a payload: that of the structure, else that of the
\* object around it, Undef when neither is a text
PayloadDescription(props) ==
    LET inner == Get(Unwrap(props), "description")
        outer == Get(props, "description")
    IN  IF inner.k = "str" /\ inner.s # << >> THEN inner
        ELSE IF outer.k = "str" /\ outer.s # << >> THEN outer
        ELSE Undef

\* C22 as stated: a payload that is classified neither Linear nor Tree nor
\* tree-node cluster is rendered as a text, without an error: its
\* description when it has one, the fixed message otherwise; {} gives the
\* fixed message.
C22_FallbackIsDescriptionOrFixed ==
    (dsView # NoView
     /\ dsView.shape \notin {"linear", "tree", "treenodes"}) =>
        /\ dsView.shape = "text"
        /\ dsView.text = (IF PayloadDescription(dsData) # Undef
                          THEN PayloadDescription(dsData)
                          ELSE FixedMessage)

\* C22, amended: the text is the payload's description when it has one,
\* else the payload itself when the payload is a bare string, and the fixed
\* message otherwise; {} gives the fixed message, without an error.
C22_FallbackIsDescriptionStringOrFixed ==
    (dsView # NoView
     /\ dsView.shape \notin {"linear", "tree", "treenodes"}) =>
        /\ dsView.shape = "text"
        /\ dsView.text = (IF PayloadDescription(dsData) # Undef
                          THEN PayloadDescription(dsData)
                          ELSE IF dsData.k = "str" THEN dsData
                          ELSE FixedMessage)
        /\ dsData = Payload(Undef, Undef, Undef, Undef, Undef)
              => dsView.text = FixedMessage

\* {} is rendered as the fixed message
C22_Witness ==
    /\ dsData = Payload(Undef, Undef, Undef, Undef, Undef)
    /\ dsView.shape = "text"
    /\ dsView.text = FixedMessage
    /\ dsDom.tag = "prose"

RECURSIVE TreeNodes(_)
\* the tree nodes of a payload, parent first, then left, then right
TreeNodes(n) ==
    IF ~Truthy(n) THEN << >>
    ELSE << n >> \o TreeNodes(Get(n, "left")) \o TreeNodes(Get(n, "right"))

\* C23: every box of a chain and every marker of a tree-node cluster shows
\* its node in the same form: a scalar as itself, an object as its val,
\* else its value, else its JSON form, with 0 and '' counting as a val or
\* a value; the boxes of a flattened root show the tree nodes in that form.
C23_SameRenderableValue ==
    /\ (dsView.shape \in {"linear", "treenodes"}
        /\ PayloadNodes(dsData) # << >>) =>
           /\ Len(dsView.items) = Len(PayloadNodes(dsData))
           /\ \A i \in DOMAIN dsView.items :
                dsView.items[i] = Renderable(PayloadNodes(dsData)[i])
    /\ (dsView.shape = "linear"
        /\ PayloadNodes(dsData) = << >>
        /\ Truthy(PayloadRoot(dsData))) =>
           /\ Len(dsView.items) = Len(TreeNodes(PayloadRoot(dsData)))
           /\ \A i \in DOMAIN dsView.items :
                dsView.items[i]
                    = Renderable(TreeNodes(PayloadRoot(dsData))[i])

(***************************************************************************)
(* Properties of the link endpoints.                                       *)
(***************************************************************************)
\* endpoint e names the node id, as a bare id string or as an embedded
\* node {id}
Names(e, id) ==
    \/ e.form = "id" /\ e.str = id
    \/ e.form = "ref" /\ e.node.id = id

\* link j of payload pl names a node of pl at each end, in either form
NamesNodes(pl, j) ==
    /\ \E i \in DOMAIN pl.nodes : Names(pl.links[j].source, pl.nodes[i].id)
    /\ \E i \in DOMAIN pl.nodes : Names(pl.links[j].target, pl.nodes[i].id)

\* C24: once a payload was drawn, every link of it that names a node id at
\* each end, as a bare id or as an embedded node, is a line that ends at
\* the nodes with these ids.
C24_EitherFormEndsAtNode ==
    \A r \in Drawn :
        LET rec == renders[r]
            pl == PayloadOf(r)
        IN  \A j \in DOMAIN pl.links :
                NamesNodes(pl, j) =>
                    /\ j \in DOMAIN rec.lines
                    /\ \A i \in DOMAIN pl.nodes :
                         /\ Names(pl.links[j].source, pl.nodes[i].id)
                               => rec.lines[j].source = i
                         /\ Names(pl.links[j].target, pl.nodes[i].id)
                               => rec.lines[j].target = i

\* the same for the draws that completed
C24_EitherFormInCompletedDraw ==
    \A r \in Drawn :
        LET rec == renders[r]
            pl == PayloadOf(r)
        IN  rec.phase = "drawn" =>
            \A j \in DOMAIN pl.links :
                NamesNodes(pl, j) =>
                    /\ j \in DOMAIN rec.lines
                    /\ \A i \in DOMAIN pl.nodes :
                         /\ Names(pl.links[j].source, pl.nodes[i].id)
                               => rec.lines[j].source = i
                         /\ Names(pl.links[j].target, pl.nodes[i].id)
                               => rec.lines[j].target = i

(***************************************************************************)
(* Properties of the simulation timer.                                     *)
(***************************************************************************)
\* the timer of the simulation of render r runs
Running(r) == r \in DOMAIN renders /\ renders[r].running

\* a node of render r is held by the pointer
DragOn(r) == dragging # << >> /\ dragging[1] = r

\* C25: while a node of a simulation is dragged, the simulation is
\* running; a running simulation none of whose nodes is dragged stops after
\* finitely many ticks unless a drag of one of its nodes starts before; and
\* a simulation stops only by the tick that cools it below the threshold,
\* with alpha target 0 and no drag of its nodes.
C25_SimulationStops ==
    /\ [](\A r \in 1..MaxGestureRenders : DragOn(r) => Running(r))
    /\ [][\A r \in 1..MaxGestureRenders :
            (Running(r) /\ ~Running(r)') =>
                /\ ~DragOn(r)
                /\ renders[r].alphaTarget = 0
                /\ renders[r].alpha <= 1]_vars
    /\ \A r \in 1..MaxGestureRenders :
          (Running(r) /\ ~DragOn(r)) ~> (~Running(r) \/ DragOn(r))

\* the simulation of a drawn graph has stopped while its svg is in the
\* document and no node is held
C25_Witness ==
    \E r \in DOMAIN renders :
        /\ renders[r].phase = "drawn"
        /\ InDom(r)
        /\ ~renders[r].running
        /\ renders[r].alpha = 0
        /\ renders[r].alphaTarget = 0
        /\ dragging = << >>

(***************************************************************************)
(* Properties of the node label.                                           *)
(***************************************************************************)
\* C26: a label of at most 16 characters is shown unchanged; a longer one
\* is shown as a prefix of itself followed by one ellipsis character; the
\* text shown never has more than 16 characters.
C26_LabelWithinBudget ==
    labelEl.appended =>
        /\ Len(label) <= 16 => labelEl.text = label
        /\ Len(label) > 16 =>
              \E n \in 0..Len(label) :
                  labelEl.text = SubSeq(label, 1, n) \o << Ellipsis >>
        /\ Len(labelEl.text) <= 16

\* a label of 17 letters is shown as its first 14 and the ellipsis
C26_Witness ==
    /\ labelEl.appended
    /\ Len(label) = 17
    /\ Len(labelEl.text) = 15
    /\ labelEl.text[15] = Ellipsis
    /\ SubSeq(labelEl.text, 1, 14) = SubSeq(label, 1, 14)

(***************************************************************************)
(* Properties of the App handlers and the toast.                           *)
(***************************************************************************)
\* C27: while the api call of a handler is in flight the loading state is
\* not null; a handler called with blank code starts no call and leaves
\* the loading state and the results as they are; when the call has
\* settled and the handler ends, the loading state is null, and after a
\* failure the results and the active tab are as before.
C27_LoadingProtocol ==
    /\ [](Awaited # {} => loading # Null)
    /\ [][/\ \A q \in requests' \ requests :
                (q.kind \in Kinds /\ q.status = "pending") => ~Blank(code)
          /\ (/\ Blank(code) /\ toastTimer' # toastTimer
              /\ toast' = Toast("Please paste some code first")) =>
                /\ requests' = requests
                /\ loading' = loading
                /\ results' = results
          /\ \A q \in Awaited :
                (q.status # "pending" /\ q \notin requests') =>
                    /\ loading' = Null
                    /\ q.status = "err" =>
                          /\ results' = results
                          /\ activeTab' = activeTab]_vars

\* a call failed after an earlier one had delivered its result: the result
\* is still there, the overlay is gone
C27_Witness ==
    /\ toast = Toast("Error")
    /\ loading = Null
    /\ Awaited = {}
    /\ \E kind \in Kinds : results[kind] # Null /\ activeTab = kind

\* C28: at most one hide timeout is pending, the one set by the latest
\* showToast; the toast is hidden only when 3 seconds have passed since the
\* latest showToast.
C28_OneToastTimer ==
    /\ [](/\ Cardinality(timers) <= 1
          /\ \A t \in timers : t.id = toastTimer)
    /\ [][(toast # Null /\ toast' = Null) => sinceToast = ToastDelay]_vars

\* the second toast is still shown 3 seconds after it was set, its timeout
\* due
C28_Witness ==
    /\ toastTimer = 2
    /\ toast # Null
    /\ sinceToast = ToastDelay
    /\ timers = {[id |-> 2, left |-> 0]}

(***************************************************************************)
(* Properties of the chat.                                                 *)
(***************************************************************************)
\* C29: the chat holds one user message per message sent and one ai message
\* per settled request, the answer or the error text of that request; the
\* loading flag is true exactly while a request is in flight.
C29_ChatProtocol ==
    /\ Len(AiMessages) + Cardinality(chatRequests) = Len(UserMessages)
    /\ \A i \in DOMAIN AiMessages :
          /\ AiMessages[i].content.k \in {"response", "error"}
          /\ \A j \in DOMAIN AiMessages :
                AiMessages[i].content.to = AiMessages[j].content.to => i = j
    /\ chatLoading <=> (chatRequests # {})

\* the same without the loading flag
C29_OneAnswerPerMessage ==
    /\ Len(AiMessages) + Cardinality(chatRequests) = Len(UserMessages)
    /\ \A i \in DOMAIN AiMessages :
          /\ AiMessages[i].content.k \in {"response", "error"}
          /\ \A j \in DOMAIN AiMessages :
                AiMessages[i].content.to = AiMessages[j].content.to => i = j

(***************************************************************************)
(* Properties of the session credentials.                                  *)
(***************************************************************************)
\* C30: getSavedUser returns the stored user when the token and a user
\* record that is valid JSON are both stored, and null when either is
\* missing or the record is not valid JSON; when logoutUser ends, neither
\* the token nor the user record is stored, whatever the server answered.
C30_Credentials ==
    /\ [](saved # NoCall =>
            LET t == saved.read.sage_token
                u == saved.read.sage_user
            IN  /\ (t = Null \/ u = Null) => saved.user = Null
                /\ (u # Null /\ u.k # "json") => saved.user = Null
                /\ (t # Null /\ u # Null /\ u.k = "json")
                      => saved.user = u.of
                /\ saved.user # Null => (t # Null /\ u # Null))
    /\ [][(logout /\ ~logout') =>
            /\ storage'.sage_token = Null
            /\ storage'.sage_user = Null]_vars

\* getSavedUser returned the user of a login; a later logout removed both
\* items
C30_Witness ==
    /\ saved.user = User("ann")
    /\ saved.read.sage_token = Token
    /\ storage = [sage_token |-> Null, sage_user |-> Null]
    /\ ~logout

====
